---- MODULE Spec2Model ----
(***************************************************************************)
(* Model of the resilient scoring pipeline of trustz-web3-backend:         *)
(* agents/github.py, agents/resume.py, utils/mock_data.py.                 *)
(*                                                                         *)
(* Texts are TLA+ strings handled character by character.  Python objects  *)
(* are records of one shape, tagged by their Python type.                  *)
(***************************************************************************)
EXTENDS Integers, Sequences, FiniteSets, TLC

(***************************************************************************)
(* Characters and strings                                                  *)
(***************************************************************************)
\* s[i:i+1] with positions counted from 1: the empty string past the end
Ch(s, i) == IF i >= 1 /\ i <= Len(s) THEN SubSeq(s, i, i) ELSE ""

\* Python str.strip() and the regex class \s (ASCII part)
IsSpace(c) == c \in {" ", "\t", "\n", "\r", "\f"}

\* json.decoder.WHITESPACE
IsJsonWs(c) == c \in {" ", "\t", "\n", "\r"}

IsDigit(c) == c \in {"0", "1", "2", "3", "4", "5", "6", "7", "8", "9"}

DigitVal(c) ==
    CASE c = "0" -> 0 [] c = "1" -> 1 [] c = "2" -> 2 [] c = "3" -> 3
      [] c = "4" -> 4 [] c = "5" -> 5 [] c = "6" -> 6 [] c = "7" -> 7
      [] c = "8" -> 8 [] c = "9" -> 9

\* does the literal lit occur in s at position i
StartsWith(s, i, lit) ==
    /\ i >= 1
    /\ i + Len(lit) - 1 <= Len(s)
    /\ SubSeq(s, i, i + Len(lit) - 1) = lit

\* the least element of a set of indices
Min(S) == CHOOSE x \in S : \A y \in S : x <= y

RECURSIVE Pow10(_)
Pow10(k) == IF k <= 0 THEN 1 ELSE 10 * Pow10(k - 1)

\* end (exclusive) of the run of digits that starts at i
RECURSIVE DigitsEnd(_, _)
DigitsEnd(s, i) ==
    IF i <= Len(s) /\ IsDigit(Ch(s, i)) THEN DigitsEnd(s, i + 1) ELSE i

\* value of the decimal digits s[i..j-1]
RECURSIVE DigitsValue(_, _, _)
DigitsValue(s, i, j) ==
    IF i >= j THEN 0
    ELSE DigitsValue(s, i, j - 1) * 10 + DigitVal(Ch(s, j - 1))

RECURSIVE LStripPos(_, _)
LStripPos(s, i) ==
    IF i <= Len(s) /\ IsSpace(Ch(s, i)) THEN LStripPos(s, i + 1) ELSE i

RECURSIVE RStripPos(_, _)
RStripPos(s, j) ==
    IF j >= 1 /\ IsSpace(Ch(s, j)) THEN RStripPos(s, j - 1) ELSE j

\* str.strip()
StripBetween(s, i, j) == IF i > j THEN "" ELSE SubSeq(s, i, j)
Strip(s) == StripBetween(s, LStripPos(s, 1), RStripPos(s, Len(s)))

(***************************************************************************)
(* Python objects.  t is the Python type; n the value of an int or bool,   *)
(* or the mantissa of a float whose value is n / 10^e; s the text of a     *)
(* str; l the items of a list, or the (key, value) pairs of a dict.        *)
(* A float with t = "float" is finite; nan and the infinities are floats   *)
(* with their own tags (n = -1 for -inf).                                  *)
(***************************************************************************)
IntV(n) == [t |-> "int", n |-> n, e |-> 0, s |-> "", l |-> <<>>]
FloatV(m, e) == [t |-> "float", n |-> m, e |-> e, s |-> "", l |-> <<>>]
NanV == [t |-> "nan", n |-> 0, e |-> 0, s |-> "", l |-> <<>>]
InfV(sign) == [t |-> "inf", n |-> sign, e |-> 0, s |-> "", l |-> <<>>]
StrV(s) == [t |-> "str", n |-> 0, e |-> 0, s |-> s, l |-> <<>>]
BoolV(b) == [t |-> "bool", n |-> IF b THEN 1 ELSE 0, e |-> 0, s |-> "", l |-> <<>>]
NoneV == [t |-> "NoneType", n |-> 0, e |-> 0, s |-> "", l |-> <<>>]
\* an object json.dumps cannot serialise (a set, a datetime)
ObjectV == [t |-> "object", n |-> 0, e |-> 0, s |-> "", l |-> <<>>]
ListV(items) == [t |-> "list", n |-> 0, e |-> 0, s |-> "", l |-> items]
DictV(pairs) == [t |-> "dict", n |-> 0, e |-> 0, s |-> "", l |-> pairs]

\* the str items of a list of str
StrList(strs) == ListV([i \in 1..Len(strs) |-> StrV(strs[i])])

\* a dict as a function from its keys
PairKeys(pairs) == {pairs[i].k : i \in 1..Len(pairs)}
PairIndex(pairs, key) == CHOOSE i \in 1..Len(pairs) : pairs[i].k = key
DictOf(pairs) == [key \in PairKeys(pairs) |-> pairs[PairIndex(pairs, key)].v]

\* pairs after d[key] = v: a key already present keeps its place
AddPair(pairs, key, v) ==
    IF key \in PairKeys(pairs)
    THEN [pairs EXCEPT ![PairIndex(pairs, key)].v = v]
    ELSE Append(pairs, [k |-> key, v |-> v])

\* d[key] = v
DictSet(d, key, v) ==
    [k \in DOMAIN d \cup {key} |-> IF k = key THEN v ELSE d[k]]

EmptyDict == [k \in {} |-> NoneV]

(***************************************************************************)
(* json.loads, as the standard library's decoder reads a str:              *)
(* json/scanner.py _scan_once, json/decoder.py JSONObject, JSONArray,      *)
(* scanstring (strict) and JSONDecoder.decode.  A result is                *)
(* [ok, v, pos]: ok = FALSE is JSONDecodeError, pos the index after the    *)
(* value.  The escapes \b and \uXXXX are outside the modelled alphabet.    *)
(***************************************************************************)
JsonErr == [ok |-> FALSE, v |-> NoneV, pos |-> 0]
JsonOk(v, p) == [ok |-> TRUE, v |-> v, pos |-> p]

RECURSIVE SkipJsonWs(_, _)
SkipJsonWs(s, i) ==
    IF i <= Len(s) /\ IsJsonWs(Ch(s, i)) THEN SkipJsonWs(s, i + 1) ELSE i

\* decoder.BACKSLASH
IsEscape(c) == c \in {"\"", "\\", "/", "f", "n", "r", "t"}
Unescape(c) ==
    CASE c = "\"" -> "\""
      [] c = "\\" -> "\\"
      [] c = "/" -> "/"
      [] c = "f" -> "\f"
      [] c = "n" -> "\n"
      [] c = "r" -> "\r"
      [] c = "t" -> "\t"

\* the characters \x00-\x1f that a strict string may not hold
IsControl(c) == c \in {"\t", "\n", "\r", "\f"}

\* the number of backslashes that stand directly before index q in the
\* string that starts at j
RECURSIVE BackslashRun(_, _, _)
BackslashRun(s, j, q) ==
    IF q > j /\ Ch(s, q - 1) = "\\" THEN 1 + BackslashRun(s, j, q - 1) ELSE 0

\* the quotes that can end the string that starts at j: those that no
\* backslash escapes
ClosingQuotes(s, j) ==
    {q \in j..Len(s) : Ch(s, q) = "\"" /\ BackslashRun(s, j, q) % 2 = 0}

\* the chunks of s[i..e-1] with each escape replaced; bs holds the indices
\* of the backslashes from i on
RECURSIVE UnescapedAt(_, _, _, _)
UnescapedAt(s, i, e, bs) ==
    IF bs = {} THEN SubSeq(s, i, e - 1)
    ELSE SubSeq(s, i, Min(bs) - 1) \o Unescape(Ch(s, Min(bs) + 1))
         \o UnescapedAt(s, Min(bs) + 2, e, {k \in bs : k > Min(bs) + 1})

\* s[j..e-1] holds no control character and only known escapes
StringOk(s, j, e) ==
    \A k \in j..(e - 1) :
        /\ ~IsControl(Ch(s, k))
        /\ (Ch(s, k) = "\\" /\ BackslashRun(s, j, k) % 2 = 0) => IsEscape(Ch(s, k + 1))

\* the string that starts at j and ends at the quote at e
StringUpTo(s, j, e, acc) ==
    IF StringOk(s, j, e)
    THEN JsonOk(StrV(acc \o UnescapedAt(s, j, e,
                       {k \in j..(e - 1) : Ch(s, k) = "\\"})), e + 1)
    ELSE JsonErr

StringEnds(s, j, acc, quotes) ==
    IF quotes = {} THEN JsonErr ELSE StringUpTo(s, j, Min(quotes), acc)

\* scanstring: j is the index after the opening quote
ScanString(s, j, acc) == StringEnds(s, j, acc, ClosingQuotes(s, j))

\* a float of value m / 10^e, without trailing zeros in the fraction
RECURSIVE NormFloat(_, _)
NormFloat(m, e) ==
    IF e > 0 /\ m % 10 = 0 THEN NormFloat(m \div 10, e - 1) ELSE FloatV(m, e)

\* scanner.NUMBER_RE  (-?(?:0|[1-9]\d*))(\.\d+)?([eE][-+]?\d+)?
\* (?:0|[1-9]\d*) at i0: the index after it
IntEnd(s, i0) == IF Ch(s, i0) = "0" THEN i0 + 1 ELSE DigitsEnd(s, i0)

\* (\.\d+)? at iEnd: the index after it
FracEnd(s, iEnd) ==
    IF Ch(s, iEnd) = "." /\ IsDigit(Ch(s, iEnd + 1))
    THEN DigitsEnd(s, iEnd + 1)
    ELSE iEnd

\* ([eE][-+]?\d+)? at fEnd: the index of its first digit, 0 when absent
ExpDigits(s, fEnd) ==
    IF Ch(s, fEnd) \notin {"e", "E"} THEN 0
    ELSE IF IsDigit(Ch(s, fEnd + 1)) THEN fEnd + 1
    ELSE IF Ch(s, fEnd + 1) \in {"-", "+"} /\ IsDigit(Ch(s, fEnd + 2)) THEN fEnd + 2
    ELSE 0

\* float(integer + frac + exp): mant / 10^fracLen * 10^expo
MakeFloat(mant, fracLen, expo) ==
    IF expo >= 0
    THEN NormFloat(mant * Pow10(expo), fracLen)
    ELSE NormFloat(mant, fracLen - expo)

\* the number whose integer part is s[i0..iEnd-1], whose fraction ends
\* before fEnd and whose exponent digits start at x0
NumberValue(s, sign, i0, iEnd, fEnd, x0) ==
    IF fEnd = iEnd /\ x0 = 0
    THEN JsonOk(IntV(sign * DigitsValue(s, i0, iEnd)), iEnd)
    ELSE JsonOk(
           MakeFloat(
             sign * (DigitsValue(s, i0, iEnd) * Pow10(fEnd - iEnd - 1)
                     + DigitsValue(s, iEnd + 1, fEnd)),
             IF fEnd = iEnd THEN 0 ELSE fEnd - iEnd - 1,
             IF x0 = 0 THEN 0
             ELSE IF Ch(s, x0 - 1) = "-"
                  THEN 0 - DigitsValue(s, x0, DigitsEnd(s, x0))
                  ELSE DigitsValue(s, x0, DigitsEnd(s, x0))),
           IF x0 = 0 THEN fEnd ELSE DigitsEnd(s, x0))

ScanFraction(s, sign, i0, iEnd, fEnd) ==
    NumberValue(s, sign, i0, iEnd, fEnd, ExpDigits(s, fEnd))

ScanInteger(s, sign, i0) ==
    IF ~IsDigit(Ch(s, i0)) THEN JsonErr
    ELSE ScanFraction(s, sign, i0, IntEnd(s, i0), FracEnd(s, IntEnd(s, i0)))

ScanNumber(s, i) ==
    IF Ch(s, i) = "-" THEN ScanInteger(s, -1, i + 1) ELSE ScanInteger(s, 1, i)

RECURSIVE ScanOnce(_, _)
RECURSIVE JSONObjectMembers(_, _, _)
RECURSIVE JSONArrayItems(_, _, _)

\* after a member's value: "}" ends the object, "," must be followed by
\* the next key
MemberKey(s, pairs, p) ==
    IF Ch(s, p) # "\"" THEN JsonErr ELSE JSONObjectMembers(s, p, pairs)

MemberEnd(s, pairs, p) ==
    IF Ch(s, p) = "}" THEN JsonOk(DictV(pairs), p + 1)
    ELSE IF Ch(s, p) # "," THEN JsonErr
    ELSE MemberKey(s, pairs, SkipJsonWs(s, p + 1))

MemberValue(s, acc, key, val) ==
    IF ~val.ok THEN JsonErr
    ELSE MemberEnd(s, AddPair(acc, key, val.v), SkipJsonWs(s, val.pos))

MemberColon(s, acc, key, p) ==
    IF Ch(s, p) # ":" THEN JsonErr
    ELSE MemberValue(s, acc, key, ScanOnce(s, SkipJsonWs(s, p + 1)))

MemberName(s, acc, key) ==
    IF ~key.ok THEN JsonErr
    ELSE MemberColon(s, acc, key.v.s, SkipJsonWs(s, key.pos))

\* one "key": value member whose key opens at j, then the rest
JSONObjectMembers(s, j, acc) == MemberName(s, acc, ScanString(s, j + 1, ""))

ObjectStart(s, j) ==
    IF Ch(s, j) = "}" THEN JsonOk(DictV(<<>>), j + 1)
    ELSE IF Ch(s, j) # "\"" THEN JsonErr
    ELSE JSONObjectMembers(s, j, <<>>)

\* decoder.JSONObject: i is the index after the opening brace
JSONObject(s, i) == ObjectStart(s, SkipJsonWs(s, i))

ItemEnd(s, items, p) ==
    IF Ch(s, p) = "]" THEN JsonOk(ListV(items), p + 1)
    ELSE IF Ch(s, p) # "," THEN JsonErr
    ELSE JSONArrayItems(s, SkipJsonWs(s, p + 1), items)

ItemValue(s, acc, val) ==
    IF ~val.ok THEN JsonErr
    ELSE ItemEnd(s, Append(acc, val.v), SkipJsonWs(s, val.pos))

\* one item at j, then the rest
JSONArrayItems(s, j, acc) == ItemValue(s, acc, ScanOnce(s, j))

ArrayStart(s, j) ==
    IF Ch(s, j) = "]" THEN JsonOk(ListV(<<>>), j + 1)
    ELSE JSONArrayItems(s, j, <<>>)

\* decoder.JSONArray: i is the index after the opening bracket
JSONArray(s, i) == ArrayStart(s, SkipJsonWs(s, i))

\* the number at i when there is one, else the constants after it
NumberOrConstant(s, i, num) ==
    IF num.ok THEN num
    ELSE IF StartsWith(s, i, "NaN") THEN JsonOk(NanV, i + 3)
    ELSE IF StartsWith(s, i, "Infinity") THEN JsonOk(InfV(1), i + 8)
    ELSE IF StartsWith(s, i, "-Infinity") THEN JsonOk(InfV(-1), i + 9)
    ELSE JsonErr

\* scanner._scan_once
ScanOnce(s, i) ==
    IF Ch(s, i) = "\"" THEN ScanString(s, i + 1, "")
    ELSE IF Ch(s, i) = "{" THEN JSONObject(s, i + 1)
    ELSE IF Ch(s, i) = "[" THEN JSONArray(s, i + 1)
    ELSE IF StartsWith(s, i, "null") THEN JsonOk(NoneV, i + 4)
    ELSE IF StartsWith(s, i, "true") THEN JsonOk(BoolV(TRUE), i + 4)
    ELSE IF StartsWith(s, i, "false") THEN JsonOk(BoolV(FALSE), i + 5)
    ELSE NumberOrConstant(s, i, ScanNumber(s, i))

\* the end of JSONDecoder.decode: only whitespace may follow the value
DecodeEnd(s, val) ==
    IF ~val.ok THEN JsonErr
    ELSE IF SkipJsonWs(s, val.pos) # Len(s) + 1 THEN JsonErr
    ELSE val

\* JSONDecoder.decode: one value between optional whitespace, nothing after
json_loads(s) == DecodeEnd(s, ScanOnce(s, SkipJsonWs(s, 1)))

(***************************************************************************)
(* Python built-ins the agents use on the decoded values.  exc = "" is a   *)
(* normal return, otherwise the name of the exception raised.              *)
(***************************************************************************)
Returns(v) == [exc |-> "", v |-> v]
Raises(name) == [exc |-> name, v |-> NoneV]

\* int(str): optional sign, digits with single underscores between them
RECURSIVE IntLiteralOk(_, _)
IntLiteralOk(s, i) ==
    IF i > Len(s) THEN TRUE
    ELSE IF IsDigit(Ch(s, i)) THEN IntLiteralOk(s, i + 1)
    ELSE /\ Ch(s, i) = "_"
         /\ IsDigit(Ch(s, i - 1))
         /\ IsDigit(Ch(s, i + 1))
         /\ IntLiteralOk(s, i + 1)

RECURSIVE IntLiteralValue(_, _, _)
IntLiteralValue(s, i, acc) ==
    IF i > Len(s) THEN acc
    ELSE IF Ch(s, i) = "_" THEN IntLiteralValue(s, i + 1, acc)
    ELSE IntLiteralValue(s, i + 1, acc * 10 + DigitVal(Ch(s, i)))

\* the digits of an int literal, its sign apart
int_of_digits(body, sign) ==
    IF body # "" /\ IsDigit(Ch(body, 1)) /\ IntLiteralOk(body, 1)
    THEN Returns(IntV(sign * IntLiteralValue(body, 1, 0)))
    ELSE Raises("ValueError")

int_of_stripped(t) ==
    IF Ch(t, 1) = "-" THEN int_of_digits(SubSeq(t, 2, Len(t)), -1)
    ELSE IF Ch(t, 1) = "+" THEN int_of_digits(SubSeq(t, 2, Len(t)), 1)
    ELSE int_of_digits(t, 1)

int_of_str(str) == int_of_stripped(Strip(str))

\* int(x)
py_int(x) ==
    CASE x.t \in {"int", "bool"} -> Returns(IntV(x.n))
      [] x.t = "float" ->
            Returns(IntV(IF x.n >= 0 THEN x.n \div Pow10(x.e)
                         ELSE 0 - ((0 - x.n) \div Pow10(x.e))))
      [] x.t = "nan" -> Raises("ValueError")
      [] x.t = "inf" -> Raises("OverflowError")
      [] x.t = "str" -> int_of_str(x.s)
      [] OTHER -> Raises("TypeError")

IsNumber(x) == x.t \in {"int", "bool", "float", "nan", "inf"}

\* x < k and x > k for a number x and an int k
NumLess(x, k) ==
    CASE x.t \in {"int", "bool"} -> x.n < k
      [] x.t = "float" -> x.n < k * Pow10(x.e)
      [] x.t = "nan" -> FALSE
      [] x.t = "inf" -> x.n < 0

NumGreater(x, k) ==
    CASE x.t \in {"int", "bool"} -> x.n > k
      [] x.t = "float" -> x.n > k * Pow10(x.e)
      [] x.t = "nan" -> FALSE
      [] x.t = "inf" -> x.n > 0

\* max(0, min(100, x)): min and max return their first argument unless a
\* later one compares smaller (larger); an unordered type raises TypeError
clamp_low(x) == IF NumGreater(x, 0) THEN x ELSE IntV(0)

clamp(x) ==
    IF ~IsNumber(x) THEN Raises("TypeError")
    ELSE Returns(clamp_low(IF NumLess(x, 100) THEN x ELSE IntV(100)))

(***************************************************************************)
(* The regular expressions of process_llm_response and                     *)
(* extract_values_from_text, as re.search matches them: the leftmost       *)
(* position where the pattern matches, quantifiers greedy unless marked.   *)
(***************************************************************************)
SetMin(S) == CHOOSE x \in S : \A y \in S : x <= y
SetMax(S) == CHOOSE x \in S : \A y \in S : x >= y

Positions(s, c) == {i \in 1..Len(s) : Ch(s, i) = c}

\* the match of (\{.*\}) given the positions of the braces: from the first
\* opening brace to the last closing brace after it; text when no match
MatchSpan(text, open, close) ==
    IF open # {} /\ close # {} /\ SetMax(close) > SetMin(open)
    THEN SubSeq(text, SetMin(open), SetMax(close))
    ELSE text

\* mutant: the pattern made non-greedy, (\{.*?\})
M_json_match(text) ==
    IF \E i \in Positions(text, "{") : \E j \in Positions(text, "}") : j > i
    THEN SubSeq(text, Min(Positions(text, "{")),
                Min({j \in Positions(text, "}") : j > Min(Positions(text, "{"))}))
    ELSE text

\* re.search(r'(\{.*\})', text, re.DOTALL).group(1), or text when no match
json_match(text) == MatchSpan(text, Positions(text, "{"), Positions(text, "}"))

\* the class ["\s:]
IsSep(c) == c = "\"" \/ c = ":" \/ IsSpace(c)

\* the class ["\']
IsQuote(c) == c = "\"" \/ c = "'"

RECURSIVE SepEnd(_, _)
SepEnd(s, i) == IF i <= Len(s) /\ IsSep(Ch(s, i)) THEN SepEnd(s, i + 1) ELSE i

\* end (exclusive) of the run of [^"\'] that starts at i
RECURSIVE NonQuoteEnd(_, _)
NonQuoteEnd(s, i) ==
    IF i <= Len(s) /\ ~IsQuote(Ch(s, i)) THEN NonQuoteEnd(s, i + 1) ELSE i

\* index after name at i, with the underscore of name optional where the
\* pattern writes _?  (0: name is not at i)
NameEnd(s, i, name, plain) ==
    IF StartsWith(s, i, name) THEN i + Len(name)
    ELSE IF StartsWith(s, i, plain) THEN i + Len(plain)
    ELSE 0

\* ["\s:]+(\d+) at p: the separators run up to the first digit
SepThenDigits(s, p, q) == p # 0 /\ q > p /\ IsDigit(Ch(s, q))

\* name["\s:]+(\d+) at i
ScoreAt(s, i, name, plain) ==
    SepThenDigits(s, NameEnd(s, i, name, plain),
                  SepEnd(s, NameEnd(s, i, name, plain)))

\* int(group(1)) of the match whose digits start at q
ScoreDigits(s, q) == DigitsValue(s, q, DigitsEnd(s, q))

FirstScore(s, name, plain, hits) ==
    IF hits = {} THEN [found |-> FALSE, n |-> 0]
    ELSE [found |-> TRUE,
          n |-> ScoreDigits(s, SepEnd(s, NameEnd(s, SetMin(hits), name, plain)))]

\* re.search(name["\s:]+(\d+), text): [found, n = int(group(1))]
search_score(s, name, plain) ==
    FirstScore(s, name, plain, {i \in 1..Len(s) : ScoreAt(s, i, name, plain)})

\* ["\']([^"\']+)["\'] with its opening quote at q and its closing one at c
QuotedBetween(s, q, c) == IsQuote(Ch(s, q)) /\ c > q + 1 /\ c <= Len(s)
QuotedAt(s, q) == QuotedBetween(s, q, NonQuoteEnd(s, q + 1))
QuotedText(s, q) == SubSeq(s, q + 1, NonQuoteEnd(s, q + 1) - 1)

\* summary["\s:]+["\']([^"\']+)["\'] at i: the separators give back
\* characters until a quoted text follows them; the opening quotes tried
SummaryQuotes(s, i) ==
    IF ~StartsWith(s, i, "summary") THEN {}
    ELSE {q \in (i + Len("summary") + 1)..SepEnd(s, i + Len("summary")) :
             QuotedAt(s, q)}

FirstSummary(s, hits) ==
    IF hits = {} THEN [found |-> FALSE, s |-> ""]
    ELSE [found |-> TRUE,
          s |-> QuotedText(s, SetMax(SummaryQuotes(s, SetMin(hits))))]

search_summary(s) ==
    FirstSummary(s, {i \in 1..Len(s) : SummaryQuotes(s, i) # {}})

\* ["\s:]+\[(.*?)\] with the separators from p to q (DOTALL)
SepThenList(s, p, q) ==
    /\ q > p
    /\ Ch(s, q) = "["
    /\ \E j \in (q + 1)..Len(s) : Ch(s, j) = "]"

\* keywords["\s:]+\[(.*?)\] at i
KeywordsAt(s, i) ==
    /\ StartsWith(s, i, "keywords")
    /\ SepThenList(s, i + Len("keywords"), SepEnd(s, i + Len("keywords")))

\* re.findall(r'["\']([^"\']+)["\']', text) from position i on
RECURSIVE findall_quoted(_, _)
findall_quoted(s, i) ==
    IF i > Len(s) THEN <<>>
    ELSE IF QuotedAt(s, i)
         THEN <<QuotedText(s, i)>> \o findall_quoted(s, NonQuoteEnd(s, i + 1) + 1)
         ELSE findall_quoted(s, i + 1)

\* group(1) of the keywords match whose bracket opens at q: up to the
\* first closing bracket
KeywordsText(s, q) ==
    SubSeq(s, q + 1, SetMin({j \in (q + 1)..Len(s) : Ch(s, j) = "]"}) - 1)

FirstKeywords(s, hits) ==
    IF hits = {} THEN [found |-> FALSE, l |-> <<>>]
    ELSE [found |-> TRUE,
          l |-> findall_quoted(
                  KeywordsText(s, SepEnd(s, SetMin(hits) + Len("keywords"))), 1)]

search_keywords(s) == FirstKeywords(s, {i \in 1..Len(s) : KeywordsAt(s, i)})

(***************************************************************************)
(* utils/mock_data.py.  random.randint and random.sample are choices; the  *)
(* model draws them from the ends of their ranges.                         *)
(***************************************************************************)
\* how many values the model draws from each end of a randint range
MockSpread == 1
\* how many starting offsets into skills the model draws samples from
MockOffsets == 1

randint(lo, hi) == {v \in lo..hi : v < lo + MockSpread \/ v > hi - MockSpread}

ScoreFields == {"Technical_Skills", "Reputation", "Activity"}

\* the set of values get_mock_github_score() can return
get_mock_github_score ==
    {[f \in ScoreFields |->
        IntV(CASE f = "Technical_Skills" -> ts
               [] f = "Reputation" -> rep
               [] f = "Activity" -> act)] :
        ts \in randint(65, 95), rep \in randint(60, 90), act \in randint(70, 95)}

skills ==
    <<"Python", "JavaScript", "TypeScript", "React", "Node.js",
      "SQL", "AWS", "Docker", "Kubernetes", "TensorFlow",
      "PyTorch", "Java", "C++", "Go", "Ruby", "Swift">>

\* random.sample(skills, random.randint(3, 5)): here runs of the list
selected_skills ==
    {SubSeq(skills, o, o + k - 1) : o \in 1..MockOffsets, k \in 3..5}

ResumeFields == ScoreFields \cup {"summary", "keywords"}

\* the set of values get_mock_resume_score() can return
get_mock_resume_score ==
    {[f \in ResumeFields |->
        CASE f = "Technical_Skills" -> IntV(ts)
          [] f = "Reputation" -> IntV(rep)
          [] f = "Activity" -> IntV(act)
          [] f = "summary" ->
               StrV("Experienced developer with " \o ToString(years)
                    \o " years in " \o sel[1] \o ", " \o sel[2])
          [] f = "keywords" -> StrList(sel)] :
        ts \in randint(70, 90), rep \in randint(65, 85), act \in randint(70, 90),
        years \in randint(2, 8), sel \in selected_skills}

(***************************************************************************)
(* agents/github.py: the score extractor                                   *)
(***************************************************************************)
\* mutant: a field without a match is left at 0
M_score_or_default(match) == IntV(IF match.found THEN match.n ELSE 0)

\* the value a score match gives a field, 50 without a match
score_or_default(match) == IntV(IF match.found THEN match.n ELSE 50)

\* extract_values_from_text of github.py
extract_values_from_text_github(text) ==
    [f \in ScoreFields |->
        CASE f = "Technical_Skills" ->
                score_or_default(search_score(text, "Technical_Skills", "TechnicalSkills"))
          [] f = "Reputation" ->
                score_or_default(search_score(text, "Reputation", "Reputation"))
          [] f = "Activity" ->
                score_or_default(search_score(text, "Activity", "Activity"))]

\* lines 242-246: a str score becomes int(str), or 50 on ValueError
int_or_default(r) == IF r.exc = "" THEN r.v ELSE IntV(50)
str_to_int(v) == IF v.t = "str" THEN int_or_default(int_of_str(v.s)) ELSE v

\* line 247: max(0, min(100, int(...)))
clamp_int(i) == IF i.exc # "" THEN i ELSE clamp(i.v)

\* github.py lines 242-247 for one field
normalize_github(v) == clamp_int(py_int(str_to_int(v)))

\* the object the text decodes to, or a value that is no dict
decoded_dict(v) ==
    IF v.t = "dict"
    THEN [isdict |-> TRUE, d |-> DictOf(v.l)]
    ELSE [isdict |-> FALSE, d |-> EmptyDict]

\* lines 226-232: the decoded value, or on JSONDecodeError the values
\* extracted from the text that json.loads was given
decode_github(text, decoded) ==
    IF ~decoded.ok
    THEN [isdict |-> TRUE, d |-> extract_values_from_text_github(text)]
    ELSE decoded_dict(decoded.v)

\* lines 220-224: result_text is replaced by the match when there is one
load_github(text) == decode_github(text, json_loads(text))

\* lines 216-232: [isdict, d]
parse_github(result_text) == load_github(json_match(result_text))

\* lines 234-238
fill_github(d) ==
    [f \in DOMAIN d \cup ScoreFields |-> IF f \in DOMAIN d THEN d[f] ELSE IntV(50)]

\* mutant: a score that raises is set to 50 and the extracted rest is kept
M_range_github(d) ==
    {[f \in DOMAIN d |->
        IF f \notin ScoreFields THEN d[f]
        ELSE IF normalize_github(d[f]).exc # "" THEN IntV(50)
        ELSE normalize_github(d[f]).v]}

\* lines 241-249, and 251-254 when a score raises
range_github(d) ==
    IF \E f \in ScoreFields : normalize_github(d[f]).exc # ""
    THEN get_mock_github_score
    ELSE {[f \in DOMAIN d |->
             IF f \in ScoreFields THEN normalize_github(d[f]).v ELSE d[f]]}

\* lines 234-254.  A decoded value that is no dict raises TypeError on
\* "field not in result" or on result[field]
validate_github(parsed) ==
    IF ~parsed.isdict THEN get_mock_github_score
    ELSE range_github(fill_github(parsed.d))

\* process_llm_response of github.py: the set of values it can return
process_llm_response_github(result_text) ==
    validate_github(parse_github(result_text))

(***************************************************************************)
(* agents/resume.py: the score extractor                                   *)
(***************************************************************************)
\* mutant: the forgiving extraction uses the placeholder of line 231
M_summary_or_default(match) ==
    StrV(IF match.found THEN match.s ELSE "Resume analysis incomplete")

summary_or_default(match) ==
    StrV(IF match.found THEN match.s ELSE "Extracted from non-JSON response")

keywords_or_default(match) == StrList(IF match.found THEN match.l ELSE <<>>)

\* extract_values_from_text of resume.py
extract_values_from_text_resume(text) ==
    [f \in ResumeFields |->
        CASE f = "Technical_Skills" ->
                score_or_default(search_score(text, "Technical_Skills", "TechnicalSkills"))
          [] f = "Reputation" ->
                score_or_default(search_score(text, "Reputation", "Reputation"))
          [] f = "Activity" ->
                score_or_default(search_score(text, "Activity", "Activity"))
          [] f = "summary" -> summary_or_default(search_summary(text))
          [] f = "keywords" -> keywords_or_default(search_keywords(text))]

\* resume.py lines 238-243 for one field: no int() around the score
normalize_resume(v) == clamp(str_to_int(v))

\* lines 217-223
decode_resume(text, decoded) ==
    IF ~decoded.ok
    THEN [isdict |-> TRUE, d |-> extract_values_from_text_resume(text)]
    ELSE decoded_dict(decoded.v)

\* lines 211-215
load_resume(text) == decode_resume(text, json_loads(text))

\* lines 207-223
parse_resume(result_text) == load_resume(json_match(result_text))

\* lines 225-234
fill_resume(d) ==
    [f \in DOMAIN d \cup ResumeFields |->
        IF f \in DOMAIN d THEN d[f]
        ELSE IF f \in ScoreFields THEN IntV(50)
        ELSE IF f = "summary" THEN StrV("Resume analysis incomplete")
        ELSE ListV(<<>>)]

\* lines 237-245, and 247-250 when a score raises
range_resume(d) ==
    IF \E f \in ScoreFields : normalize_resume(d[f]).exc # ""
    THEN get_mock_resume_score
    ELSE {[f \in DOMAIN d |->
             IF f \in ScoreFields THEN normalize_resume(d[f]).v ELSE d[f]]}

\* lines 225-250
validate_resume(parsed) ==
    IF ~parsed.isdict THEN get_mock_resume_score
    ELSE range_resume(fill_resume(parsed.d))

\* process_llm_response of resume.py: the set of values it can return
process_llm_response_resume(result_text) ==
    validate_resume(parse_resume(result_text))

(***************************************************************************)
(* The provider chain of analyze_github and analyze_resume.  One behaviour *)
(* is one invocation of one of the two functions, in one process           *)
(* configuration.                                                          *)
(***************************************************************************)
VARIABLES
    use_mock,            \* USE_MOCK_DATA is "true"
    openrouter_api_key,  \* OPENROUTER_API_KEY is set (truthy)
    deepseek_api_key,    \* DEEPSEEK_API_KEY is set
    openai_api_key,      \* OPENAI_API_KEY is set
    task,                \* the function invoked: "github" or "resume"
    github_data,         \* the argument of analyze_github
    resume_text,         \* the argument of analyze_resume
    pc,                  \* "start", "try", "call", "fallback", "done"
    cur,                 \* the provider block the invocation is at, 1..3
    tried,               \* providers whose tried_* flag is True
    in_flight,           \* providers whose chat.completions.create has not ended
    calls,               \* the requests issued, in order
    responses,           \* how each call ended, in order
    status,              \* "running", "returned" or "raised"
    path,                \* the return statement taken
    result,              \* the value returned
    result_text,         \* the argument of a direct call of process_llm_response
    github_score,        \* main.py: the value bound to github_score
    resume_score,        \* main.py: the value bound to resume_score
    trust_score,         \* the value calculate_trust_score returned
    response             \* what the caller of /analyze receives

vars == <<use_mock, openrouter_api_key, deepseek_api_key, openai_api_key, task,
          github_data, resume_text, pc, cur, tried, in_flight, calls, responses,
          status, path, result, result_text, github_score, resume_score,
          trust_score, response>>

\* the state of the callers of the two functions
caller == <<result_text, github_score, resume_score, trust_score, response>>

\* no caller: the function is invoked on its own
NoCaller ==
    /\ result_text = ""
    /\ github_score = EmptyDict
    /\ resume_score = EmptyDict
    /\ trust_score = IntV(0)
    /\ response = [kind |-> "none"]

config == <<use_mock, openrouter_api_key, deepseek_api_key, openai_api_key, task,
            github_data, resume_text>>

\* mutant: the direct Deepseek block placed before the OpenRouter block
M_Providers == <<"deepseek", "openrouter", "openai">>

\* the three try blocks, in the order the functions run them
Providers == <<"openrouter", "deepseek", "openai">>

\* mutant: the blocks lose their "if <provider>_api_key" test
M_api_key(p) == TRUE

api_key(p) ==
    CASE p = "openrouter" -> openrouter_api_key
      [] p = "deepseek" -> deepseek_api_key
      [] p = "openai" -> openai_api_key

\* the request each block sends
Request(p) ==
    CASE p = "openrouter" ->
            [provider |-> p, base_url |-> "https://openrouter.ai/api/v1",
             model |-> "deepseek/deepseek-chat-v3-0324", temperature |-> "0.3",
             response_format |-> "", extra_headers |-> TRUE]
      [] p = "deepseek" ->
            [provider |-> p, base_url |-> "https://api.deepseek.com",
             model |-> "deepseek-chat", temperature |-> "0.3",
             response_format |-> "", extra_headers |-> FALSE]
      [] p = "openai" ->
            [provider |-> p, base_url |-> "",
             model |-> "gpt-3.5-turbo", temperature |-> "0.5",
             response_format |-> "json_object", extra_headers |-> FALSE]

\* a dict literal
Dict3(ts, rep, act) ==
    [f \in ScoreFields |->
        CASE f = "Technical_Skills" -> ts [] f = "Reputation" -> rep [] f = "Activity" -> act]

\* arguments analyze_github is invoked with
GithubInputs ==
    { Dict3(IntV(85), IntV(72), IntV(90)),
      Dict3(IntV(0), IntV(100), IntV(50)),
      Dict3(IntV(-5), IntV(150), IntV(100)),
      Dict3(FloatV(725, 1), IntV(60), BoolV(TRUE)),
      Dict3(StrV("88"), NoneV, IntV(70)),
      Dict3(NanV, IntV(60), IntV(70)),
      DictSet(Dict3(IntV(85), IntV(72), IntV(90)), "login", StrV("octocat")),
      EmptyDict,
      DictOf(<<[k |-> "Technical_Skills", v |-> IntV(85)],
               [k |-> "Reputation", v |-> IntV(72)]>>),
      DictOf(<<[k |-> "login", v |-> StrV("octocat")],
               [k |-> "public_repos", v |-> IntV(8)]>>),
      DictOf(<<[k |-> "login", v |-> StrV("octocat")],
               [k |-> "fetched_at", v |-> ObjectV]>>) }

\* arguments analyze_resume is invoked with
ResumeInputs == {"", "Full stack developer with 5 years of experience in Python"}

\* how a call can fail: chat.completions.create raises (transport failure,
\* non-2xx status), response.choices is empty (IndexError), or the message
\* content is None (AttributeError on .strip())
Failures == {"transport", "non2xx", "no_choices", "null_content"}

\* message contents a provider can answer with
ProviderTexts ==
    { "",
      "  \n",
      "{\"Technical_Skills\": 75, \"Reputation\": 80, \"Activity\": 65}",
      " {\"Technical_Skills\": 75, \"Reputation\": 80, \"Activity\": 65}\n",
      "{\"Technical_Skills\": 81, \"Reputation\": 64, \"Activity\": 77, \"summary\": \"Backend developer\", \"keywords\": [\"Python\", \"AWS\"]}",
      "Here is the analysis:\n{\"Technical_Skills\": 75, \"Reputation\": 80, \"Activity\": 65}\nDone.",
      "{\"Technical_Skills\": -5, \"Reputation\": 150, \"Activity\": 100}",
      "{\"Technical_Skills\": 72.5, \"Reputation\": 60, \"Activity\": 70}",
      "{\"Technical_Skills\": \"88\", \"Reputation\": \"abc\", \"Activity\": \" 42 \"}",
      "{\"Technical_Skills\": null, \"Reputation\": 60, \"Activity\": 70}",
      "{\"Technical_Skills\": [1], \"Reputation\": 60, \"Activity\": 70}",
      "{\"Technical_Skills\": true, \"Reputation\": NaN, \"Activity\": 1e2}",
      "{\"Reputation\": 60}",
      "null",
      "[75, 80, 65]",
      "Technical_Skills: 77, here's my answer, Reputation 60, Activity:not-a-number",
      "Technical_Skills: 77 {broken} Reputation: 60",
      "technical_skills: 77, REPUTATION: 60",
      "{Technical_Skills: 77, summary: \"Good dev\", keywords: [\"a\", \"b\", \"c\", \"d\", \"e\", \"f\"]}",
      "{\"Technical_Skills\": 75, \"Reputation\": 80, \"Activity\": 65, \"keywords\": [\"a\", \"b\", \"c\", \"d\", \"e\", \"f\"]}",
      "{\"Technical_Skills\": 75, \"Reputation\": 80, \"Activity\": 65, \"summary\": null, \"keywords\": [\"Python\"]}",
      "I cannot analyze this." }

Init ==
    /\ use_mock \in BOOLEAN
    /\ openrouter_api_key \in BOOLEAN
    /\ deepseek_api_key \in BOOLEAN
    /\ openai_api_key \in BOOLEAN
    /\ task \in {"github", "resume"}
    /\ github_data \in IF task = "github" THEN GithubInputs ELSE {EmptyDict}
    /\ resume_text \in IF task = "resume" THEN ResumeInputs ELSE {""}
    /\ pc = "start"
    /\ cur = 1
    /\ tried = {}
    /\ in_flight = {}
    /\ calls = <<>>
    /\ responses = <<>>
    /\ status = "running"
    /\ path = ""
    /\ result = EmptyDict
    /\ NoCaller

\* a return statement
Return(how, value) ==
    /\ pc' = "done"
    /\ status' = "returned"
    /\ path' = how
    /\ result' = value

\* mutant: the isinstance test of line 43 inverted
M_passthrough_score(v) == clamp_int(py_int(IF IsNumber(v) THEN IntV(50) ELSE v))

\* github.py lines 42-46 for one field
passthrough_score(v) == clamp_int(py_int(IF IsNumber(v) THEN v ELSE IntV(50)))

\* mutant: the pass-through also requires numbers in [0,100]
M_has_required_fields(data) ==
    \A f \in ScoreFields :
        /\ f \in DOMAIN data
        /\ data[f].t \in {"int", "float"}
        /\ ~NumLess(data[f], 0) /\ ~NumGreater(data[f], 100)

\* github.py line 33
has_required_fields(data) == \A f \in ScoreFields : f \in DOMAIN data

\* json.dumps(github_data) raises TypeError
RECURSIVE Unserialisable(_)
Unserialisable(v) ==
    \/ v.t = "object"
    \/ v.t = "list" /\ \E i \in 1..Len(v.l) : Unserialisable(v.l[i])
    \/ v.t = "dict" /\ \E i \in 1..Len(v.l) : Unserialisable(v.l[i].v)

\* analyze_github lines 31-48: the data holds the three fields; the scores
\* are returned normalised, and int() of nan or inf raises out of the function
PassThrough ==
    /\ pc = "start" /\ task = "github"
    /\ has_required_fields(github_data)
    /\ IF \E f \in ScoreFields : passthrough_score(github_data[f]).exc # ""
       THEN /\ pc' = "done"
            /\ status' = "raised"
            /\ UNCHANGED <<path, result>>
       ELSE Return("passthrough",
                   [f \in ScoreFields |-> passthrough_score(github_data[f]).v])
    /\ UNCHANGED <<caller, config, cur, tried, in_flight, calls, responses>>

\* analyze_github lines 51-53, analyze_resume lines 28-30
MockMode ==
    /\ pc = "start"
    /\ use_mock
    /\ \/ /\ task = "github"
          /\ ~has_required_fields(github_data)
          /\ \E m \in get_mock_github_score : Return("mock", m)
       \/ /\ task = "resume"
          /\ \E m \in get_mock_resume_score : Return("mock", m)
    /\ UNCHANGED <<caller, config, cur, tried, in_flight, calls, responses>>

\* mutant: the empty-text test placed before the mock test
M_EmptyResume ==
    /\ pc = "start" /\ task = "resume"
    /\ resume_text = ""
    /\ Return("empty",
              [f \in ResumeFields |->
                  CASE f \in ScoreFields -> IntV(50)
                    [] f = "summary" -> StrV("No resume provided for analysis")
                    [] f = "keywords" -> ListV(<<>>)])
    /\ UNCHANGED <<caller, config, cur, tried, in_flight, calls, responses>>

\* analyze_resume lines 33-41
EmptyResume ==
    /\ pc = "start" /\ task = "resume"
    /\ ~use_mock
    /\ resume_text = ""
    /\ Return("empty",
              [f \in ResumeFields |->
                  CASE f \in ScoreFields -> IntV(50)
                    [] f = "summary" -> StrV("No resume provided for analysis")
                    [] f = "keywords" -> ListV(<<>>)])
    /\ UNCHANGED <<caller, config, cur, tried, in_flight, calls, responses>>

\* mutant: analyze_resume without its empty-text test
M_BuildPrompt ==
    /\ pc = "start"
    /\ ~use_mock
    /\ task = "resume"
    /\ pc' = "try"
    /\ UNCHANGED <<status, path, result>>
    /\ UNCHANGED <<caller, config, cur, tried, in_flight, calls, responses>>

\* the prompt is built and the chain entered (github.py lines 55-82,
\* resume.py lines 43-76); json.dumps of data it cannot serialise raises
\* inside the outer try, whose handler returns the mock score (196-200)
BuildPrompt ==
    /\ pc = "start"
    /\ ~use_mock
    /\ \/ /\ task = "github"
          /\ ~has_required_fields(github_data)
          /\ IF \E k \in DOMAIN github_data : Unserialisable(github_data[k])
             THEN \E m \in get_mock_github_score : Return("unexpected", m)
             ELSE /\ pc' = "try"
                  /\ UNCHANGED <<status, path, result>>
       \/ /\ task = "resume"
          /\ resume_text # ""
          /\ pc' = "try"
          /\ UNCHANGED <<status, path, result>>
    /\ UNCHANGED <<caller, config, cur, tried, in_flight, calls, responses>>

\* mutant: a failed call is retried once before the next block
M_Advance ==
    IF pc = "call" /\ Len(calls) = cur
    THEN cur' = cur /\ pc' = "try"
    ELSE IF cur < 3
         THEN cur' = cur + 1 /\ pc' = "try"
         ELSE cur' = cur /\ pc' = "fallback"

\* the block after block cur: the next one, or the code after the last
Advance ==
    IF cur < Len(Providers)
    THEN cur' = cur + 1 /\ pc' = "try"
    ELSE cur' = cur /\ pc' = "fallback"

\* the else branch of "if <provider>_api_key": the block is skipped
SkipProvider ==
    /\ pc = "try"
    /\ ~api_key(Providers[cur])
    /\ Advance
    /\ UNCHANGED <<caller, config, tried, in_flight, calls, responses, status, path, result>>

\* "if <provider>_api_key": tried_* is set and the request sent
StartCall ==
    /\ pc = "try"
    /\ api_key(Providers[cur])
    /\ tried' = tried \cup {Providers[cur]}
    /\ calls' = Append(calls, Request(Providers[cur]))
    /\ in_flight' = in_flight \cup {Providers[cur]}
    /\ pc' = "call"
    /\ UNCHANGED <<caller, config, cur, responses, status, path, result>>

\* the call raises, or its response has no text to strip: the block's
\* except logs a warning and the function goes on to the next block
CallFails ==
    /\ pc = "call"
    /\ \E kind \in Failures :
          responses' = Append(responses,
                [provider |-> Providers[cur], kind |-> kind, text |-> ""])
    /\ in_flight' = in_flight \ {Providers[cur]}
    /\ Advance
    /\ UNCHANGED <<caller, config, tried, calls, status, path, result>>

\* the value "return process_llm_response(result_text)" can return
process_llm_response(content) ==
    IF task = "github" THEN process_llm_response_github(Strip(content))
    ELSE process_llm_response_resume(Strip(content))

\* mutant: the block keeps the normalised answer but lacks its return
M_CallReturns ==
    /\ pc = "call"
    /\ \E content \in ProviderTexts :
          /\ responses' = Append(responses,
                [provider |-> Providers[cur], kind |-> "text", text |-> content])
          /\ \E r \in process_llm_response(content) : result' = r
    /\ in_flight' = in_flight \ {Providers[cur]}
    /\ IF cur < 3
       THEN cur' = cur + 1 /\ pc' = "try" /\ UNCHANGED <<status, path>>
       ELSE cur' = cur /\ pc' = "done" /\ status' = "returned" /\ path' = "provider"
    /\ UNCHANGED <<caller, config, tried, calls>>

\* mutant: an answer that is empty after strip() counts as a failed call
M_EmptyAnswerFails ==
    /\ pc = "call"
    /\ \E content \in ProviderTexts :
          /\ responses' = Append(responses,
                [provider |-> Providers[cur], kind |-> "text", text |-> content])
          /\ IF Strip(content) = ""
             THEN Advance /\ UNCHANGED <<status, path, result>>
             ELSE /\ \E r \in process_llm_response(content) : Return("provider", r)
                  /\ UNCHANGED cur
    /\ in_flight' = in_flight \ {Providers[cur]}
    /\ UNCHANGED <<caller, config, tried, calls>>

\* the call answers with a text: it is stripped, normalised and returned
CallReturns ==
    /\ pc = "call"
    /\ \E content \in ProviderTexts :
          /\ responses' = Append(responses,
                [provider |-> Providers[cur], kind |-> "text", text |-> content])
          /\ \E r \in process_llm_response(content) : Return("provider", r)
    /\ in_flight' = in_flight \ {Providers[cur]}
    /\ UNCHANGED <<caller, config, cur, tried, calls>>

\* mutant: the exhausted chain raises instead of returning the mock score
M_MockFallback ==
    /\ pc = "fallback"
    /\ pc' = "done"
    /\ status' = "raised"
    /\ UNCHANGED <<caller, config, cur, tried, in_flight, calls, responses, path, result>>

\* every block was skipped or failed (github.py 178-194, resume.py 172-188)
MockFallback ==
    /\ pc = "fallback"
    /\ \E m \in IF task = "github" THEN get_mock_github_score
                ELSE get_mock_resume_score : Return("fallback", m)
    /\ UNCHANGED <<caller, config, cur, tried, in_flight, calls, responses>>

Next ==
    \/ PassThrough
    \/ MockMode
    \/ EmptyResume
    \/ BuildPrompt
    \/ SkipProvider
    \/ StartCall
    \/ CallFails
    \/ CallReturns
    \/ MockFallback

Spec == Init /\ [][Next]_vars

(***************************************************************************)
(* json.dumps(obj, indent=2), as json/encoder.py _make_iterencode writes   *)
(* it: one member or item per line, indented two spaces per level, the     *)
(* separators "," and ": ", strings escaped by ESCAPE_ASCII.               *)
(***************************************************************************)
RECURSIVE Indent(_)
Indent(level) == IF level = 0 THEN "" ELSE "  " \o Indent(level - 1)

\* encoder.ESCAPE_DCT
EscapeChar(c) ==
    CASE c = "\"" -> "\\\""
      [] c = "\\" -> "\\\\"
      [] c = "\n" -> "\\n"
      [] c = "\r" -> "\\r"
      [] c = "\t" -> "\\t"
      [] c = "\f" -> "\\f"
      [] OTHER -> c

\* s from index i on, escaped; es holds the indices from i on of the
\* characters to escape
RECURSIVE EscapeAt(_, _, _)
EscapeAt(s, i, es) ==
    IF es = {} THEN SubSeq(s, i, Len(s))
    ELSE SubSeq(s, i, Min(es) - 1) \o EscapeChar(Ch(s, Min(es)))
         \o EscapeAt(s, Min(es) + 1, es \ {Min(es)})

EscapeFrom(s, i) ==
    EscapeAt(s, i, {k \in i..Len(s) : EscapeChar(Ch(s, k)) # Ch(s, k)})

encode_str(s) == "\"" \o EscapeFrom(s, 1) \o "\""

\* the e digits of the fraction f, with its leading zeros
RECURSIVE FractionDigits(_, _)
FractionDigits(f, e) ==
    IF e = 0 THEN ""
    ELSE FractionDigits(f \div 10, e - 1) \o ToString(f % 10)

\* float.__repr__ of m / 10^e, for values written without an exponent
float_repr(m, e) ==
    (IF m < 0 THEN "-" ELSE "")
    \o ToString((IF m < 0 THEN 0 - m ELSE m) \div Pow10(e))
    \o "."
    \o (IF e = 0 THEN "0"
        ELSE FractionDigits((IF m < 0 THEN 0 - m ELSE m) % Pow10(e), e))

encode_scalar(v) ==
    CASE v.t = "int" -> ToString(v.n)
      [] v.t = "bool" -> IF v.n = 1 THEN "true" ELSE "false"
      [] v.t = "NoneType" -> "null"
      [] v.t = "str" -> encode_str(v.s)
      [] v.t = "nan" -> "NaN"
      [] v.t = "inf" -> IF v.n < 0 THEN "-Infinity" ELSE "Infinity"
      [] v.t = "float" -> float_repr(v.n, v.e)

RECURSIVE encode_value(_, _)
RECURSIVE encode_items(_, _, _)
RECURSIVE encode_members(_, _, _)

\* _iterencode_list from item i on
encode_items(items, i, level) ==
    IF i > Len(items) THEN ""
    ELSE (IF i > 1 THEN ",\n" ELSE "")
         \o Indent(level) \o encode_value(items[i], level)
         \o encode_items(items, i + 1, level)

\* _iterencode_dict from member i on
encode_members(pairs, i, level) ==
    IF i > Len(pairs) THEN ""
    ELSE (IF i > 1 THEN ",\n" ELSE "")
         \o Indent(level) \o encode_str(pairs[i].k) \o ": "
         \o encode_value(pairs[i].v, level)
         \o encode_members(pairs, i + 1, level)

encode_value(v, level) ==
    IF v.t = "list"
    THEN IF v.l = <<>> THEN "[]"
         ELSE "[\n" \o encode_items(v.l, 1, level + 1) \o "\n" \o Indent(level) \o "]"
    ELSE IF v.t = "dict"
    THEN IF v.l = <<>> THEN "{}"
         ELSE "{\n" \o encode_members(v.l, 1, level + 1) \o "\n" \o Indent(level) \o "}"
    ELSE encode_scalar(v)

\* the order in which the functions' return statements list the keys
KeyOrder == <<"Technical_Skills", "Reputation", "Activity", "summary", "keywords">>

\* the members of a result, in that order
RECURSIVE PairsFrom(_, _)
PairsFrom(d, i) ==
    IF i > Len(KeyOrder) THEN <<>>
    ELSE IF KeyOrder[i] \in DOMAIN d
         THEN <<[k |-> KeyOrder[i], v |-> d[KeyOrder[i]]]>> \o PairsFrom(d, i + 1)
         ELSE PairsFrom(d, i + 1)

\* json.dumps of a result of the two functions
json_dumps(d) == encode_value(DictV(PairsFrom(d, 1)), 0)


(***************************************************************************)
(* process_llm_response called on its own: one behaviour is one call of    *)
(* the function of github.py or of resume.py on one text.                  *)
(***************************************************************************)
\* a result of analyze_resume
ResumeDict(ts, rep, act, summary, keywords) ==
    [f \in ResumeFields |->
        CASE f = "Technical_Skills" -> ts
          [] f = "Reputation" -> rep
          [] f = "Activity" -> act
          [] f = "summary" -> StrV(summary)
          [] f = "keywords" -> StrList(keywords)]

\* objects that are valid for the schema of the task's result, with scores
\* in and out of range
SchemaObjects(t) ==
    IF t = "github"
    THEN { Dict3(IntV(0), IntV(100), IntV(50)),
           Dict3(IntV(-5), IntV(150), IntV(100)),
           Dict3(IntV(101), IntV(-1), IntV(0)) }
    ELSE { ResumeDict(IntV(50), IntV(50), IntV(50),
                      "No resume provided for analysis", <<>>),
           ResumeDict(IntV(-5), IntV(150), IntV(100),
                      "Senior \"full stack\" developer {Python}", <<"C++", "a}b">>),
           ResumeDict(IntV(101), IntV(-1), IntV(0),
                      "Resume analysis incomplete", <<"x">>) }

\* the texts the function is called with: what a provider may answer, and
\* the serialisations of the schema's objects
ExtractorTexts(t) ==
    {Strip(content) : content \in ProviderTexts}
    \cup {json_dumps(d) : d \in SchemaObjects(t)}
    \cup { "Activity: 250, Activity: 3",
           "TechnicalSkills\": 88 Reputation:\n 7 reputation: 9",
           "Activityx 5 Activity 9 Reputation 60 {" }

InitExtract ==
    /\ use_mock = FALSE
    /\ openrouter_api_key = FALSE
    /\ deepseek_api_key = FALSE
    /\ openai_api_key = FALSE
    /\ task \in {"github", "resume"}
    /\ github_data = EmptyDict
    /\ resume_text = ""
    /\ pc = "start"
    /\ cur = 1
    /\ tried = {}
    /\ in_flight = {}
    /\ calls = <<>>
    /\ responses = <<>>
    /\ status = "running"
    /\ path = ""
    /\ result = EmptyDict
    /\ result_text \in ExtractorTexts(task)
    /\ github_score = EmptyDict
    /\ resume_score = EmptyDict
    /\ trust_score = IntV(0)
    /\ response = [kind |-> "none"]

\* the return of a call: the first call's, or the call's on the
\* serialisation of the first result
Returned2(r) == Return(IF path = "" THEN "extractor" ELSE "renormalised", r)

\* process_llm_response(result_text) of github.py
ExtractGithub ==
    /\ pc = "start" /\ task = "github"
    /\ \E r \in process_llm_response_github(result_text) : Returned2(r)
    /\ UNCHANGED <<github_score, resume_score, trust_score, response>>
    /\ UNCHANGED <<result_text, config, cur, tried, in_flight, calls, responses>>

\* process_llm_response(result_text) of resume.py
ExtractResume ==
    /\ pc = "start" /\ task = "resume"
    /\ \E r \in process_llm_response_resume(result_text) : Returned2(r)
    /\ UNCHANGED <<github_score, resume_score, trust_score, response>>
    /\ UNCHANGED <<result_text, config, cur, tried, in_flight, calls, responses>>

\* the result is serialised and the function called on that text
Reserialise ==
    /\ pc = "done" /\ path = "extractor"
    /\ DOMAIN result \subseteq {KeyOrder[i] : i \in 1..Len(KeyOrder)}
    /\ result_text' = json_dumps(result)
    /\ pc' = "start"
    /\ status' = "running"
    /\ path' = "serialised"
    /\ UNCHANGED <<github_score, resume_score, trust_score, response>>
    /\ UNCHANGED <<result, config, cur, tried, in_flight, calls, responses>>

NextExtract == ExtractGithub \/ ExtractResume \/ Reserialise

SpecExtract == InitExtract /\ [][NextExtract]_vars


(***************************************************************************)
(* utils/score.py: calculate_trust_score.  The weights are written in      *)
(* hundredths and the weighted sum is kept exact, as the fraction          *)
(* total / (100 * 10^e).  round(x, 0) rounds the binary float the code     *)
(* computed: off a tie that is the nearest integer of the exact sum, as    *)
(* the sums are multiples of 1/(100 * 10^e); on a tie the float lies on    *)
(* either side, so both neighbours are possible results.                   *)
(***************************************************************************)
\* mutant: a missing field read as the neutral 50
M_get_score(d, field) == IF field \in DOMAIN d THEN d[field] ELSE IntV(50)

\* lines 17-23: d.get(field, 0)
get_score(d, field) == IF field \in DOMAIN d THEN d[field] ELSE IntV(0)

\* lines 28-33: the six factors, in the order of the sum
Factors(github, resume) ==
    << get_score(github, "Technical_Skills"), get_score(github, "Reputation"),
       get_score(github, "Activity"), get_score(resume, "Technical_Skills"),
       get_score(resume, "Reputation"), get_score(resume, "Activity") >>

\* mutant: the last weight doubled, the weights sum to 1.1
M_WeightSum == <<25, 15, 20, 20, 10, 20>>

\* mutant: the last weight subtracted instead of added
M_NegativeWeight == <<25, 15, 20, 20, 10, -10>>

\* mutant: the three GitHub scores weighted alike
M_Weights == <<20, 20, 20, 20, 10, 10>>

\* lines 28-33: the weights 0.25, 0.15, 0.2, 0.2, 0.1, 0.1, in hundredths
Weights == <<25, 15, 20, 20, 10, 10>>

\* x * 0.25 and the sum are finite floats: x is an int, a bool or a finite
\* float.  A str, None, list or dict raises TypeError on the product; nan
\* and the infinities raise in int(final_score)
IsFinite(v) == v.t \in {"int", "float", "bool"}

\* the largest number of decimals among the factors
RECURSIVE MaxDecimals(_, _)
MaxDecimals(factors, i) ==
    IF i > Len(factors) THEN 0
    ELSE IF factors[i].e > MaxDecimals(factors, i + 1) THEN factors[i].e
    ELSE MaxDecimals(factors, i + 1)

\* the weighted sum of the factors from i on, times 100 * 10^e
RECURSIVE WeightedSum(_, _, _)
WeightedSum(factors, i, e) ==
    IF i > Len(factors) THEN 0
    ELSE Weights[i] * factors[i].n * Pow10(e - factors[i].e)
         + WeightedSum(factors, i + 1, e)

\* round(total / unit, 0): the integers nearest to the fraction
round_0(total, unit) ==
    IF 2 * (total % unit) < unit THEN {total \div unit}
    ELSE IF 2 * (total % unit) > unit THEN {total \div unit + 1}
    ELSE {total \div unit, total \div unit + 1}

\* mutant: line 38 without max and min
M_clamp_score(q) == IntV(q)

\* line 38: max(0, min(100, int(final_score)))
clamp_score(q) == IntV(IF q < 0 THEN 0 ELSE IF q > 100 THEN 100 ELSE q)

\* lines 27-38 for factors with e decimals at most
final_scores(factors, e) ==
    {clamp_score(q) : q \in round_0(WeightedSum(factors, 1, e), 100 * Pow10(e))}

\* lines 15-42, given the six factors: the values the function can return
trust_of_factors(factors) ==
    IF \E i \in 1..Len(factors) : ~IsFinite(factors[i])
    THEN {IntV(50)}
    ELSE final_scores(factors, MaxDecimals(factors, 1))

\* calculate_trust_score(github_score, resume_score)
calculate_trust_score(github, resume) == trust_of_factors(Factors(github, resume))

(***************************************************************************)
(* calculate_trust_score called on its own: one behaviour is one call on   *)
(* one pair of maps.                                                       *)
(***************************************************************************)
\* a map with one score
OneScore(field, v) == [f \in {field} |-> v]

\* the maps the function is called with
ScoreInputs ==
    { Dict3(IntV(85), IntV(72), IntV(90)),
      Dict3(IntV(80), IntV(75), IntV(85)),
      Dict3(IntV(0), IntV(0), IntV(0)),
      Dict3(IntV(100), IntV(100), IntV(100)),
      Dict3(IntV(2), IntV(0), IntV(0)),
      Dict3(IntV(50), IntV(50), IntV(51)),
      Dict3(IntV(-5), IntV(150), IntV(100)),
      Dict3(IntV(1000), IntV(1000), IntV(1000)),
      Dict3(FloatV(725, 1), IntV(60), BoolV(TRUE)),
      Dict3(NoneV, IntV(60), IntV(70)),
      Dict3(IntV(75), StrV("80"), IntV(65)),
      Dict3(IntV(75), IntV(80), ListV(<<IntV(1)>>)),
      Dict3(NanV, IntV(80), IntV(65)),
      Dict3(IntV(75), InfV(1), IntV(65)),
      EmptyDict,
      OneScore("Technical_Skills", IntV(80)),
      OneScore("Activity", IntV(-1000)),
      ResumeDict(IntV(80), IntV(75), IntV(85), "Experienced developer", <<"Python">>) }
    \cup {Dict3(IntV(v), IntV(v), IntV(v)) : v \in 0..100}

InitScore ==
    /\ use_mock = FALSE
    /\ openrouter_api_key = FALSE
    /\ deepseek_api_key = FALSE
    /\ openai_api_key = FALSE
    /\ task = "score"
    /\ github_data = EmptyDict
    /\ resume_text = ""
    /\ pc = "start"
    /\ cur = 1
    /\ tried = {}
    /\ in_flight = {}
    /\ calls = <<>>
    /\ responses = <<>>
    /\ status = "running"
    /\ path = ""
    /\ result = EmptyDict
    /\ result_text = ""
    /\ github_score \in ScoreInputs
    /\ resume_score \in ScoreInputs
    /\ trust_score = IntV(0)
    /\ response = [kind |-> "none"]

\* calculate_trust_score(github_score, resume_score) returns
CalculateTrustScore ==
    /\ pc = "start" /\ task = "score"
    /\ trust_score' \in calculate_trust_score(github_score, resume_score)
    /\ pc' = "done"
    /\ status' = "returned"
    /\ path' = "score"
    /\ UNCHANGED <<result, result_text, github_score, resume_score, response>>
    /\ UNCHANGED <<config, cur, tried, in_flight, calls, responses>>

NextScore == CalculateTrustScore

SpecScore == InitScore /\ [][NextScore]_vars

(***************************************************************************)
(* models/schemas.py: what pydantic makes of a value handed to a field.    *)
(* The repository pins no pydantic version; the two major versions differ  *)
(* in what they coerce, so the version is a parameter: 1 coerces numbers   *)
(* to str and truncates floats to int, 2 rejects both.  A result is        *)
(* [ok, v]: ok = FALSE is ValidationError.                                 *)
(***************************************************************************)
PydanticVersions == {1, 2}

Valid(v) == [ok |-> TRUE, v |-> v]
Invalid == [ok |-> FALSE, v |-> NoneV]

\* str(x) of a number
str_of_number(x) ==
    CASE x.t = "int" -> ToString(x.n)
      [] x.t = "bool" -> IF x.n = 1 THEN "True" ELSE "False"
      [] x.t = "float" -> float_repr(x.n, x.e)
      [] x.t = "nan" -> "nan"
      [] x.t = "inf" -> IF x.n < 0 THEN "-inf" ELSE "inf"

\* a field annotated str (ResumeAnalysis.summary, ResumeScore.summary)
validate_str(x, version) ==
    CASE x.t = "str" -> Valid(x)
      [] IsNumber(x) -> IF version = 1 THEN Valid(StrV(str_of_number(x))) ELSE Invalid
      [] OTHER -> Invalid

\* a float with a fractional part
HasFraction(x) == x.t = "float" /\ x.n % Pow10(x.e) # 0

\* a field annotated int (GitHubScore)
validate_int(x, version) ==
    CASE x.t \in {"int", "bool"} -> Valid(IntV(x.n))
      [] x.t = "float" ->
            IF version = 2 /\ HasFraction(x) THEN Invalid ELSE Valid(py_int(x).v)
      [] x.t = "str" -> IF py_int(x).exc = "" THEN Valid(py_int(x).v) ELSE Invalid
      [] OTHER -> Invalid

\* a field annotated int = Field(..., ge=0, le=100)
validate_score(x, version) ==
    IF validate_int(x, version).ok
       /\ validate_int(x, version).v.n >= 0 /\ validate_int(x, version).v.n <= 100
    THEN validate_int(x, version)
    ELSE Invalid

\* a field annotated List[str]
validate_keywords(x, version) ==
    IF x.t = "list" /\ \A i \in 1..Len(x.l) : validate_str(x.l[i], version).ok
    THEN Valid(ListV([i \in 1..Len(x.l) |-> validate_str(x.l[i], version).v]))
    ELSE Invalid

\* d.get(key, default)
dict_get(d, key, default) == IF key \in DOMAIN d THEN d[key] ELSE default

\* ResumeAnalysis(summary=..., keywords=...), main.py lines 76-79
ResumeAnalysis(score, version) ==
    IF /\ validate_str(dict_get(score, "summary", StrV("No summary available")), version).ok
       /\ validate_keywords(dict_get(score, "keywords", ListV(<<>>)), version).ok
    THEN [ok |-> TRUE,
          summary |-> validate_str(dict_get(score, "summary",
                                            StrV("No summary available")), version).v,
          keywords |-> validate_keywords(dict_get(score, "keywords", ListV(<<>>)),
                                         version).v]
    ELSE [ok |-> FALSE, summary |-> NoneV, keywords |-> NoneV]

\* a dict handed to a field annotated GitHubScore
GitHubScore(score, version) ==
    IF \A f \in ScoreFields : f \in DOMAIN score /\ validate_int(score[f], version).ok
    THEN [ok |-> TRUE, v |-> [f \in ScoreFields |-> validate_int(score[f], version).v]]
    ELSE [ok |-> FALSE, v |-> EmptyDict]

\* a dict handed to a field annotated ResumeScore
ResumeScore(score, version) ==
    IF /\ \A f \in ResumeFields : f \in DOMAIN score
       /\ \A f \in ScoreFields : validate_score(score[f], version).ok
       /\ validate_str(score["summary"], version).ok
       /\ validate_keywords(score["keywords"], version).ok
    THEN [ok |-> TRUE,
          v |-> [f \in ResumeFields |->
                    IF f \in ScoreFields THEN validate_score(score[f], version).v
                    ELSE IF f = "summary" THEN validate_str(score[f], version).v
                    ELSE validate_keywords(score[f], version).v]]
    ELSE [ok |-> FALSE, v |-> EmptyDict]

\* raise HTTPException(status_code=500, ...), main.py lines 95-100
HTTP500 == [kind |-> "error", status_code |-> 500]

\* AnalysisResponse(...) of main.py lines 85-90 and its return, or the
\* HTTPException of the except branch when a model rejects its input
AnalysisResponse(trust, analysis, github, resume, version) ==
    IF /\ validate_score(trust, version).ok
       /\ GitHubScore(github, version).ok
       /\ ResumeScore(resume, version).ok
    THEN [kind |-> "success",
          trust_score |-> validate_score(trust, version).v,
          resume_analysis |-> [summary |-> analysis.summary,
                               keywords |-> analysis.keywords],
          github_score |-> GitHubScore(github, version).v,
          resume_score |-> ResumeScore(resume, version).v]
    ELSE HTTP500

(***************************************************************************)
(* main.py: POST /analyze.  One behaviour is one request that passed the   *)
(* validation of AnalysisRequest: analyze_github, then analyze_resume with *)
(* its provider chain, then the response is built.                         *)
(***************************************************************************)
\* request.github.dict() of requests GitHubData accepts
RequestGithub ==
    { Dict3(IntV(85), IntV(72), IntV(90)),
      Dict3(IntV(0), IntV(100), IntV(51)) }

\* request.resume of requests AnalysisRequest accepts (min_length=1)
RequestResume == {"Full stack developer with 5 years of experience in Python", "x"}

\* the request is being handled, nothing was sent back yet
Pending == [kind |-> "pending"]

InitEndpoint ==
    /\ use_mock \in BOOLEAN
    /\ openrouter_api_key \in BOOLEAN
    /\ deepseek_api_key \in BOOLEAN
    /\ openai_api_key \in BOOLEAN
    /\ task = "github"
    /\ github_data \in RequestGithub
    /\ resume_text \in RequestResume
    /\ pc = "start"
    /\ cur = 1
    /\ tried = {}
    /\ in_flight = {}
    /\ calls = <<>>
    /\ responses = <<>>
    /\ status = "running"
    /\ path = ""
    /\ result = EmptyDict
    /\ result_text = ""
    /\ github_score = EmptyDict
    /\ resume_score = EmptyDict
    /\ trust_score = IntV(0)
    /\ response = Pending

\* main.py lines 72-73: analyze_github has returned, its value is bound
\* and analyze_resume(resume_text) is entered; an exception out of
\* analyze_github is answered by the except branch
AnalyzeResume ==
    /\ response = Pending
    /\ pc = "done" /\ task = "github"
    /\ IF status = "raised"
       THEN /\ response' = HTTP500
            /\ UNCHANGED <<task, pc, status, path, result, github_score>>
       ELSE /\ github_score' = result
            /\ task' = "resume"
            /\ pc' = "start"
            /\ status' = "running"
            /\ path' = ""
            /\ result' = EmptyDict
            /\ UNCHANGED response
    /\ UNCHANGED <<use_mock, openrouter_api_key, deepseek_api_key, openai_api_key,
                   github_data, resume_text, cur, tried, in_flight, calls, responses,
                   result_text, resume_score, trust_score>>

\* main.py lines 73-100: analyze_resume has returned; the analysis is
\* built, the trust score calculated and the response built and returned,
\* or a model raises and the except branch answers with status 500
Respond ==
    /\ response = Pending
    /\ pc = "done" /\ task = "resume"
    /\ \E version \in PydanticVersions :
          IF status = "raised"
          THEN /\ response' = HTTP500
               /\ UNCHANGED <<resume_score, trust_score>>
          ELSE /\ resume_score' = result
               /\ IF ~ResumeAnalysis(result, version).ok
                  THEN /\ response' = HTTP500
                       /\ UNCHANGED trust_score
                  ELSE \E t \in calculate_trust_score(github_score, result) :
                          /\ trust_score' = t
                          /\ response' =
                                AnalysisResponse(t, ResumeAnalysis(result, version),
                                                 github_score, result, version)
    /\ UNCHANGED <<config, pc, cur, tried, in_flight, calls, responses, status, path,
                   result, result_text, github_score>>

NextEndpoint ==
    \/ PassThrough
    \/ AnalyzeResume
    \/ MockMode
    \/ BuildPrompt
    \/ SkipProvider
    \/ StartCall
    \/ CallFails
    \/ CallReturns
    \/ MockFallback
    \/ Respond

SpecEndpoint == InitEndpoint /\ [][NextEndpoint]_vars

(***************************************************************************)
(* main.py: POST /analyze at the grain of the handler's own statements:    *)
(* each of analyze_github(github_data) and analyze_resume(resume_text) is  *)
(* one step that returns any value the function can return in the          *)
(* process configuration.                                                  *)
(***************************************************************************)
\* some provider block is entered
any_api_key == openrouter_api_key \/ deepseek_api_key \/ openai_api_key

\* what the provider chain of a function can return: the normalisation of
\* an answer of a configured provider, or the mock score when every block
\* was skipped or failed
chain_returns(function) ==
    (IF function = "github" THEN get_mock_github_score ELSE get_mock_resume_score)
    \cup
    (IF any_api_key
     THEN UNION {IF function = "github"
                 THEN process_llm_response_github(Strip(content))
                 ELSE process_llm_response_resume(Strip(content)) :
                 content \in ProviderTexts}
     ELSE {})

\* mutant: the mock test placed before the pass-through
M_analyze_github_returns(data) ==
    IF use_mock THEN get_mock_github_score
    ELSE IF has_required_fields(data)
    THEN {[f \in ScoreFields |-> passthrough_score(data[f]).v]}
    ELSE chain_returns("github")

\* the values analyze_github(data) can return (github.py lines 31-200);
\* no value when int() raises out of the pass-through
analyze_github_returns(data) ==
    IF has_required_fields(data)
    THEN IF \E f \in ScoreFields : passthrough_score(data[f]).exc # "" THEN {}
         ELSE {[f \in ScoreFields |-> passthrough_score(data[f]).v]}
    ELSE IF use_mock \/ \E k \in DOMAIN data : Unserialisable(data[k])
    THEN get_mock_github_score
    ELSE chain_returns("github")

\* the values analyze_resume(text) can return (resume.py lines 27-194)
analyze_resume_returns(text) ==
    IF use_mock THEN get_mock_resume_score
    ELSE IF text = ""
    THEN {[f \in ResumeFields |->
             CASE f \in ScoreFields -> IntV(50)
               [] f = "summary" -> StrV("No resume provided for analysis")
               [] f = "keywords" -> ListV(<<>>)]}
    ELSE chain_returns("resume")

InitAnalyze ==
    /\ use_mock \in BOOLEAN
    /\ openrouter_api_key \in BOOLEAN
    /\ deepseek_api_key \in BOOLEAN
    /\ openai_api_key \in BOOLEAN
    /\ task = "analyze"
    /\ github_data \in RequestGithub
    /\ resume_text \in RequestResume
    /\ pc = "start"
    /\ cur = 1
    /\ tried = {}
    /\ in_flight = {}
    /\ calls = <<>>
    /\ responses = <<>>
    /\ status = "running"
    /\ path = ""
    /\ result = EmptyDict
    /\ result_text = ""
    /\ github_score = EmptyDict
    /\ resume_score = EmptyDict
    /\ trust_score = IntV(0)
    /\ response = Pending

\* main.py lines 68-72: github_score = analyze_github(github_data), or
\* the except branch when the call raises
CallAnalyzeGithub ==
    /\ task = "analyze" /\ pc = "start"
    /\ IF analyze_github_returns(github_data) = {}
       THEN /\ response' = HTTP500
            /\ pc' = "done"
            /\ status' = "raised"
            /\ UNCHANGED github_score
       ELSE /\ github_score' \in analyze_github_returns(github_data)
            /\ pc' = "github"
            /\ UNCHANGED <<response, status>>
    /\ UNCHANGED <<config, cur, tried, in_flight, calls, responses, path, result,
                   result_text, resume_score, trust_score>>

\* main.py line 73: resume_score = analyze_resume(resume_text)
CallAnalyzeResume ==
    /\ task = "analyze" /\ pc = "github"
    /\ resume_score' \in analyze_resume_returns(resume_text)
    /\ pc' = "resume"
    /\ UNCHANGED <<config, cur, tried, in_flight, calls, responses, status, path,
                   result, result_text, github_score, trust_score, response>>

\* main.py lines 76-100: the analysis is built, the trust score calculated
\* and the response built and returned, or a model raises and the except
\* branch answers with status 500
ReturnResponse ==
    /\ task = "analyze" /\ pc = "resume"
    /\ \E version \in PydanticVersions :
          IF ~ResumeAnalysis(resume_score, version).ok
          THEN /\ response' = HTTP500
               /\ status' = "raised"
               /\ UNCHANGED trust_score
          ELSE \E t \in calculate_trust_score(github_score, resume_score) :
                  /\ trust_score' = t
                  /\ response' =
                        AnalysisResponse(t, ResumeAnalysis(resume_score, version),
                                         github_score, resume_score, version)
                  /\ status' = IF response'.kind = "success"
                               THEN "returned" ELSE "raised"
    /\ pc' = "done"
    /\ UNCHANGED <<config, cur, tried, in_flight, calls, responses, path, result,
                   result_text, github_score, resume_score>>

NextAnalyze == CallAnalyzeGithub \/ CallAnalyzeResume \/ ReturnResponse

SpecAnalyze == InitAnalyze /\ [][NextAnalyze]_vars


(***************************************************************************)
(* Properties                                                              *)
(***************************************************************************)
Done == pc = "done"
Returned == status = "returned"

ProviderNames == {"openrouter", "deepseek", "openai"}

\* the credential of a provider, read from the configuration
KeySet(p) ==
    \/ p = "openrouter" /\ openrouter_api_key
    \/ p = "deepseek" /\ deepseek_api_key
    \/ p = "openai" /\ openai_api_key

\* the fixed priority order
Priority(p) ==
    CASE p = "openrouter" -> 1 [] p = "deepseek" -> 2 [] p = "openai" -> 3

Called == {calls[i].provider : i \in 1..Len(calls)}
FailedAt == {i \in 1..Len(responses) :
                responses[i].kind \in {"transport", "non2xx", "no_choices", "null_content"}}
TextAt == {i \in 1..Len(responses) : responses[i].kind = "text"}
FailedProviders == {responses[i].provider : i \in FailedAt}

\* the input does not end the invocation before the provider chain
NeedsProviders ==
    \/ task = "github" /\ ~(ScoreFields \subseteq DOMAIN github_data)
    \/ task = "resume" /\ resume_text # ""

MockOutputs ==
    IF task = "github" THEN get_mock_github_score ELSE get_mock_resume_score

IsScore(v) == v.t = "int" /\ v.n >= 0 /\ v.n <= 100
WellFormedTriple(r) == \A f \in ScoreFields : f \in DOMAIN r /\ IsScore(r[f])
WellFormed(r) ==
    /\ WellFormedTriple(r)
    /\ task = "resume" =>
          /\ "summary" \in DOMAIN r /\ r["summary"].t = "str"
          /\ "keywords" \in DOMAIN r /\ r["keywords"].t = "list"

\* C1: every result analyze_github or analyze_resume returns, on any path
\* and for any provider text, holds Technical_Skills, Reputation and
\* Activity, each an integer in [0,100].
C1_ScoresAreIntegersInRange == Returned => WellFormedTriple(result)

\* C2: with mock mode off and every provider unconfigured or failed, an
\* invocation that needs the providers ends by returning a well-formed
\* output of the mock source and never raises; with no provider configured
\* it makes no provider call.
C2_TerminalGuarantee ==
    (~use_mock /\ NeedsProviders) =>
        /\ status # "raised"
        /\ (Done /\ \A p \in ProviderNames : ~KeySet(p) \/ p \in FailedProviders) =>
              /\ Returned
              /\ result \in MockOutputs
              /\ WellFormed(result)
        /\ (\A p \in ProviderNames : ~KeySet(p)) => calls = <<>>

\* C2 witness: all three providers were called and failed, and the mock
\* score was returned
C2_Witness ==
    /\ Done /\ ~use_mock /\ task = "github"
    /\ FailedAt = 1..3
    /\ Returned /\ path = "fallback"

\* C3: the providers are called one at a time in the order OpenRouter,
\* Deepseek, OpenAI: a call starts only after the call to every earlier
\* configured provider has ended in failure, and never are two in flight.
C3_SequentialInPriorityOrder ==
    /\ Cardinality(in_flight) <= 1
    /\ in_flight = IF Len(calls) > Len(responses)
                   THEN {calls[Len(calls)].provider} ELSE {}
    /\ \A i, j \in 1..Len(calls) :
          i < j => Priority(calls[i].provider) < Priority(calls[j].provider)
    /\ \A j \in 1..Len(calls) : \A p \in ProviderNames :
          (KeySet(p) /\ Priority(p) < Priority(calls[j].provider)) =>
              \E i \in 1..(j - 1) :
                  /\ calls[i].provider = p
                  /\ i \in FailedAt
                  /\ responses[i].provider = p

\* C3 witness: the third call is in flight after two failed ones
C3_Witness == Len(calls) = 3 /\ in_flight = {"openai"} /\ FailedAt = {1, 2}

\* the normalisation of a provider's text by the score extractor
Normalised(text) ==
    IF task = "github" THEN process_llm_response_github(Strip(text))
    ELSE process_llm_response_resume(Strip(text))

\* C4: first success wins: once a provider answers with a text, every
\* earlier call has failed, no later provider is called, and the result
\* returned is the extractor's normalisation of that text, not the mock
\* fallback of the exhausted chain.
C4_FirstSuccessWins ==
    /\ \A i \in TextAt :
          /\ i = Len(responses) /\ Len(calls) = i
          /\ \A j \in 1..(i - 1) : j \in FailedAt
          /\ Returned /\ path = "provider"
          /\ result \in Normalised(responses[i].text)
    /\ (/\ task = "github" /\ TextAt # {} /\ FailedAt # {}
        /\ responses[Len(responses)].text =
              " {\"Technical_Skills\": 75, \"Reputation\": 80, \"Activity\": 65}\n")
        => result = Dict3(IntV(75), IntV(80), IntV(65))

\* C4 witness: the first provider failed and the second answered
C4_Witness ==
    /\ Len(responses) = 2 /\ FailedAt = {1} /\ TextAt = {2}
    /\ Returned

\* C5: a provider without a credential is never called: its block is
\* skipped and the chain goes on, so an exhausted chain has called every
\* configured provider.
C5_UnconfiguredNeverCalled ==
    /\ \A p \in Called \cup in_flight \cup tried : KeySet(p)
    /\ (Done /\ path = "fallback") => \A p \in ProviderNames : KeySet(p) => p \in Called

\* C5 witness: OpenRouter has no key and Deepseek was called
C5_Witness == ~openrouter_api_key /\ Len(calls) >= 1 /\ calls[1].provider = "deepseek"

\* C6 as stated: with mock mode on, both functions return the mock output
\* without a provider call for every input, the mock test coming first.
C6_MockFirstForEveryInput ==
    (use_mock /\ Done) =>
        /\ Returned /\ path = "mock" /\ result \in MockOutputs
        /\ calls = <<>>

\* C6 amended: with mock mode on no provider is called; analyze_resume
\* returns the mock output for every input, its mock test coming first;
\* analyze_github returns the mock output only for an input that lacks one
\* of the three score fields, because its pass-through test comes first.
C6_MockButPassThroughFirst ==
    use_mock =>
        /\ calls = <<>> /\ pc \in {"start", "done"}
        /\ (Done /\ NeedsProviders) =>
              Returned /\ path = "mock" /\ result \in MockOutputs
        /\ (Done /\ task = "resume") =>
              Returned /\ path = "mock" /\ result \in MockOutputs
        /\ (Done /\ task = "github" /\ ScoreFields \subseteq DOMAIN github_data) =>
              path # "mock"

\* C6 witness: mock mode on, empty resume text, the mock output returned
C6_Witness ==
    /\ use_mock /\ task = "resume" /\ resume_text = ""
    /\ Returned /\ path = "mock"

\* the data holds the three scores as integers in [0,100]
ValidScores(data) ==
    /\ ScoreFields \subseteq DOMAIN data
    /\ \A f \in ScoreFields : IsScore(data[f])

\* C7: a GitHub input that holds the three scores as integers in [0,100]
\* is returned with exactly those three values and no provider call,
\* whatever the credentials.
C7_PassThrough ==
    (task = "github" /\ ValidScores(github_data)) =>
        /\ calls = <<>>
        /\ Done => /\ Returned
                   /\ result = [f \in ScoreFields |-> github_data[f]]

\* C7 witness: a valid input returned while all three keys are set
C7_Witness ==
    /\ task = "github" /\ ValidScores(github_data) /\ Returned
    /\ github_data["Technical_Skills"].n = 85
    /\ openrouter_api_key /\ deepseek_api_key /\ openai_api_key

EmptyResumeResult ==
    [f \in ResumeFields |->
        CASE f \in ScoreFields -> IntV(50)
          [] f = "summary" -> StrV("No resume provided for analysis")
          [] f = "keywords" -> ListV(<<>>)]

\* C8 as stated: empty resume text returns the fixed result without a
\* provider call in every configuration of credentials and mock flag.
C8_EmptyResumeEveryConfiguration ==
    (task = "resume" /\ resume_text = "") =>
        /\ calls = <<>>
        /\ Done => Returned /\ result = EmptyResumeResult

\* C8 amended: empty resume text never leads to a provider call; with mock
\* mode off it returns the fixed result in every configuration of
\* credentials, with mock mode on it returns the mock output.
C8_EmptyResumeUnlessMock ==
    (task = "resume" /\ resume_text = "") =>
        /\ calls = <<>>
        /\ (Done /\ ~use_mock) => Returned /\ result = EmptyResumeResult
        /\ (Done /\ use_mock) => Returned /\ result \in get_mock_resume_score

\* C8 witness: the fixed result returned with all three keys set
C8_Witness ==
    /\ task = "resume" /\ resume_text = "" /\ ~use_mock
    /\ openrouter_api_key /\ deepseek_api_key /\ openai_api_key
    /\ Returned /\ path = "empty"

\* C9: no retries: each provider is called at most once in an invocation,
\* so at most three calls are made.
C9_NoRetries ==
    /\ Len(calls) <= 3
    /\ \A i, j \in 1..Len(calls) : calls[i].provider = calls[j].provider => i = j

\* C9 witness: three calls, the first two failed in different ways
C9_Witness ==
    /\ Len(calls) = 3 /\ Len(responses) = 3
    /\ responses[1].kind = "transport" /\ responses[2].kind = "non2xx"

\* the failed call at i is not the source of the result, and the chain
\* went on after it
TreatedAsFailure(i) ==
    /\ ~(Done /\ path = "provider" /\ i = Len(responses))
    /\ \/ i < Len(responses)
       \/ pc \in {"try", "call", "fallback"}
       \/ Done /\ path = "fallback"

\* C10: a call that ends in a transport failure, a non-2xx response or an
\* empty payload (empty response text) is that provider's failure: its
\* output is not used for the result and the chain goes on to the next
\* configured provider.
C10_EmptyTextIsFailure ==
    \A i \in 1..Len(responses) :
        (\/ responses[i].kind \in {"transport", "non2xx", "null_content"}
         \/ responses[i].kind = "text" /\ responses[i].text = "")
        => TreatedAsFailure(i)

\* the first call of process_llm_response on the text has returned
Extracted == pc = "done" /\ path = "extractor"

\* what json.loads makes of the {...} span of the text
Loaded == json_loads(json_match(result_text))
LoadedObject == Loaded.ok /\ Loaded.v.t = "dict"
Object == DictOf(Loaded.v.l)

\* min(100, max(0, n))
Clamped(n) == IF n < 0 THEN 0 ELSE IF n > 100 THEN 100 ELSE n

\* a value that is no number and no string of digits
NonNumeric(v) ==
    \/ v.t \in {"NoneType", "list", "dict"}
    \/ v.t = "str" /\ int_of_str(v.s).exc # ""

\* C11: in process_llm_response every required score field that is absent
\* from the extracted object, or present with a non-numeric value (a
\* non-digit string, null, a list or an object), comes out as exactly 50,
\* while the other fields keep their own normalised values.
C11_MissingOrNonNumericIs50 ==
    (Extracted /\ LoadedObject) =>
        \A f \in ScoreFields :
            /\ f \in DOMAIN result
            /\ (f \notin DOMAIN Object \/ NonNumeric(Object[f])) => result[f] = IntV(50)
            /\ (f \in DOMAIN Object /\ Object[f].t = "int") =>
                  result[f] = IntV(Clamped(Object[f].n))

\* what json.loads makes of the whole text
Whole == json_loads(result_text)

\* an object that is valid for the schema of the task's result
SchemaValid(o) ==
    /\ \A f \in ScoreFields : f \in DOMAIN o /\ o[f].t = "int"
    /\ task = "resume" =>
          /\ "summary" \in DOMAIN o /\ o["summary"].t = "str"
          /\ "keywords" \in DOMAIN o /\ o["keywords"].t = "list"
          /\ \A i \in 1..Len(o["keywords"].l) : o["keywords"].l[i].t = "str"

\* the object with each score v replaced by min(100, max(0, v))
ClampedObject(o) ==
    [f \in DOMAIN o |-> IF f \in ScoreFields THEN IntV(Clamped(o[f].n)) ELSE o[f]]

\* C12: extraction idempotence: for every text that is valid JSON for the
\* schema, process_llm_response returns that JSON's values with each score
\* clamped into [0,100] and nothing else changed; the serialisation of an
\* already normalised result is normalised to the same result.
C12_ExtractionIdempotence ==
    /\ [](Extracted =>
            /\ (Whole.ok /\ Whole.v.t = "dict" /\ SchemaValid(DictOf(Whole.v.l)))
                  => result = ClampedObject(DictOf(Whole.v.l))
            /\ \A d \in SchemaObjects(task) :
                  result_text = json_dumps(d) => result = ClampedObject(d))
    /\ [][(path = "serialised" /\ path' = "renormalised" /\ WellFormed(result))
            => result' = result]_vars

\* C12 witness: the serialisation of a normalised resume result whose
\* strings hold quotes and braces has been normalised again
C12_Witness ==
    /\ pc = "done" /\ path = "renormalised" /\ task = "resume"
    /\ result_text = json_dumps(
          ResumeDict(IntV(0), IntV(100), IntV(100),
                     "Senior \"full stack\" developer {Python}", <<"C++", "a}b">>))
    /\ result["Reputation"] = IntV(100)
    /\ result["keywords"] = StrList(<<"C++", "a}b">>)

\* the text the forgiving extraction is given: the {...} span of the text
\* when it has one
Searched == json_match(result_text)

\* the spellings of a field's name in its pattern
Spellings(f) ==
    IF f = "Technical_Skills" THEN {"Technical_Skills", "TechnicalSkills"} ELSE {f}

\* name stands at i in s, followed by one or more of the separators
\* (quote, colon, white space) that end before the digit at j
NameThenDigit(s, i, j, name) ==
    /\ i + Len(name) < j
    /\ SubSeq(s, i, i + Len(name) - 1) = name
    /\ \A m \in (i + Len(name))..(j - 1) : Ch(s, m) \in {"\"", ":", " ", "\t", "\n", "\r", "\f"}
    /\ Ch(s, j) \in {"0", "1", "2", "3", "4", "5", "6", "7", "8", "9"}

\* the pairs (start of the name, start of the digits) of the matches of f
FieldMatches(s, f) ==
    {m \in (1..Len(s)) \X (1..Len(s)) :
        \E name \in Spellings(f) : NameThenDigit(s, m[1], m[2], name)}

FirstMatch(ms) == CHOOSE m \in ms : \A o \in ms : m[1] <= o[1]

\* the number written by the run of digits that starts at j
RunValue(s, j) == DigitsValue(s, j, DigitsEnd(s, j))

\* C13: forgiving extraction: for text that does not parse as an object,
\* each score field is extracted on its own: a field whose name is followed
\* by separators and a run of digits takes the digits of its first match
\* (clamped to [0,100]), a field without a match is 50; the text
\* "Technical_Skills: 77, here's my answer, Reputation 60,
\* Activity:not-a-number" gives 77, 60 and 50.
C13_ForgivingExtraction ==
    (Extracted /\ ~Loaded.ok) =>
        /\ \A f \in ScoreFields :
              result[f] = IF FieldMatches(Searched, f) = {} THEN IntV(50)
                          ELSE IntV(Clamped(RunValue(Searched,
                                      FirstMatch(FieldMatches(Searched, f))[2])))
        /\ result_text = "Technical_Skills: 77, here's my answer, Reputation 60, Activity:not-a-number"
              => /\ result["Technical_Skills"] = IntV(77)
                 /\ result["Reputation"] = IntV(60)
                 /\ result["Activity"] = IntV(50)

\* C13 witness: the example text has been normalised by resume.py
C13_Witness ==
    /\ Extracted /\ task = "resume"
    /\ result_text = "Technical_Skills: 77, here's my answer, Reputation 60, Activity:not-a-number"
    /\ result["Technical_Skills"] = IntV(77)

\* the text makes the post-processing raise: json.loads gives a value that
\* is no object, or an object with a score that neither int() nor min() and
\* max() accept
InternalError ==
    /\ Loaded.ok
    /\ \/ Loaded.v.t # "dict"
       \/ \E f \in ScoreFields \cap DOMAIN Object :
             \/ Object[f].t \in {"NoneType", "list", "dict"}
             \/ task = "github" /\ Object[f].t \in {"nan", "inf"}

\* C14: process_llm_response never raises, whatever the text: when an
\* internal error occurs in parsing or post-processing it returns the
\* complete output of the mock source, a well-formed triple, and no
\* partially extracted result; every result holds the three score fields.
C14_NeverRaises ==
    /\ status # "raised"
    /\ pc = "start" =>
          (IF task = "github" THEN process_llm_response_github(result_text)
           ELSE process_llm_response_resume(result_text)) # {}
    /\ Extracted =>
          /\ status = "returned"
          /\ ScoreFields \subseteq DOMAIN result
          /\ InternalError => result \in MockOutputs /\ WellFormed(result)

\* C14 witness: a text with a null score was given to resume.py and a mock
\* output came back
C14_Witness ==
    /\ Extracted /\ task = "resume" /\ InternalError
    /\ LoadedObject /\ Object["Technical_Skills"] = NoneV
    /\ result \in get_mock_resume_score

\* calculate_trust_score has returned
Scored == pc = "done" /\ path = "score"

\* 100 times the weighted sum of six integer scores
Hundredths(g, r) ==
    25 * g["Technical_Skills"].n + 15 * g["Reputation"].n + 20 * g["Activity"].n
    + 20 * r["Technical_Skills"].n + 10 * r["Reputation"].n + 10 * r["Activity"].n

NotANumber(v) == v.t \in {"str", "NoneType", "list", "dict", "object"}

\* the map with 0 for the field
WithZero(d, f) == [k \in DOMAIN d \cup {f} |-> IF k = f THEN IntV(0) ELSE d[k]]

\* C16: on malformed input to calculate_trust_score, a score field missing
\* or present with a non-numeric value, the computation goes on with 0 in
\* the place of that field: the result is the result for the same input
\* with that field set to 0.
C16_ZeroForMalformed ==
    Scored =>
        \A f \in ScoreFields :
            /\ (f \notin DOMAIN github_score \/ NotANumber(github_score[f])) =>
                  trust_score \in
                      calculate_trust_score(WithZero(github_score, f), resume_score)
            /\ (f \notin DOMAIN resume_score \/ NotANumber(resume_score[f])) =>
                  trust_score \in
                      calculate_trust_score(github_score, WithZero(resume_score, f))

\* C16 amended: a missing score field counts as 0, the result being that
\* for the same input with the field set to 0; a score field present with
\* a non-numeric value (str, None, list, object) is not replaced: the
\* function returns the neutral 50.
C16_ZeroForMissingOnly ==
    Scored =>
        /\ \A f \in ScoreFields :
              /\ f \notin DOMAIN github_score =>
                    trust_score \in
                        calculate_trust_score(WithZero(github_score, f), resume_score)
              /\ f \notin DOMAIN resume_score =>
                    trust_score \in
                        calculate_trust_score(github_score, WithZero(resume_score, f))
        /\ (\E f \in ScoreFields :
               \/ f \in DOMAIN github_score /\ NotANumber(github_score[f])
               \/ f \in DOMAIN resume_score /\ NotANumber(resume_score[f]))
           => trust_score = IntV(50)

\* C16 witness: a null score beside scores 60 and 70, and a map with one
\* field only, gave 50
C16_Witness ==
    /\ Scored
    /\ github_score = Dict3(NoneV, IntV(60), IntV(70))
    /\ resume_score = OneScore("Technical_Skills", IntV(80))
    /\ trust_score = IntV(50)

\* a score that makes the computation raise: no number, or nan or an
\* infinity, which int() rejects
RaisingScore(v) == NotANumber(v) \/ v.t \in {"nan", "inf"}

\* C17: calculate_trust_score never raises and always returns an integer
\* in [0,100], for any two maps, also with missing fields, values out of
\* range or non-numeric values; when the computation hits an internal
\* error it returns exactly 50.
C17_TrustScoreTotal ==
    /\ status # "raised"
    /\ (pc = "start" /\ task = "score") =>
          calculate_trust_score(github_score, resume_score) # {}
    /\ Scored =>
          /\ status = "returned"
          /\ trust_score.t = "int" /\ trust_score.n \in 0..100
          /\ (\E f \in ScoreFields :
                 \/ f \in DOMAIN github_score /\ RaisingScore(github_score[f])
                 \/ f \in DOMAIN resume_score /\ RaisingScore(resume_score[f]))
             => trust_score = IntV(50)

\* C17 witness: scores of 1000 beside a map with one negative field gave an
\* integer in range
C17_Witness ==
    /\ Scored
    /\ github_score = Dict3(IntV(1000), IntV(1000), IntV(1000))
    /\ resume_score = OneScore("Activity", IntV(-1000))
    /\ trust_score = IntV(100)

\* C18: every result analyze_resume returns, on any path (empty input,
\* mock, provider JSON, forgiving extraction), carries a keywords sequence
\* of length 0 to 5, also when the provider's text lists more than five.
C18_AtMostFiveKeywords ==
    (task = "resume" /\ Returned) =>
        /\ "keywords" \in DOMAIN result
        /\ result["keywords"].t = "list"
        /\ Len(result["keywords"].l) <= 5

\* the strict parse gave an object that the post-processing accepts
StrictStage == LoadedObject /\ ~InternalError
\* json.loads rejected the text and the forgiving extraction ran
ForgivingStage == ~Loaded.ok

\* the provider text supplies no summary: the parsed object has no
\* summary member, or the summary pattern matches nowhere
NoSummary ==
    \/ StrictStage /\ "summary" \notin DOMAIN Object
    \/ ForgivingStage /\ ~search_summary(Searched).found
NoKeywords ==
    \/ StrictStage /\ "keywords" \notin DOMAIN Object
    \/ ForgivingStage /\ ~search_keywords(Searched).found

\* C19: every result of the resume process_llm_response holds summary and
\* keywords; when the provider text supplies no summary, the summary is one
\* and the same fixed placeholder (that of the post-processing) whichever
\* parse stage ran, and when it supplies no keywords, keywords is empty.
C19_OnePlaceholder ==
    (Extracted /\ task = "resume") =>
        /\ "summary" \in DOMAIN result /\ "keywords" \in DOMAIN result
        /\ NoSummary => result["summary"] = StrV("Resume analysis incomplete")
        /\ NoKeywords => result["keywords"] = ListV(<<>>)

\* C19 amended: every result holds summary and keywords; without keywords
\* in the text keywords is empty; without a summary the placeholder depends
\* on the stage: "Resume analysis incomplete" after the strict parse,
\* "Extracted from non-JSON response" after the forgiving extraction.
C19_PlaceholderPerStage ==
    (Extracted /\ task = "resume") =>
        /\ "summary" \in DOMAIN result /\ "keywords" \in DOMAIN result
        /\ (StrictStage /\ "summary" \notin DOMAIN Object) =>
              result["summary"] = StrV("Resume analysis incomplete")
        /\ (ForgivingStage /\ ~search_summary(Searched).found) =>
              result["summary"] = StrV("Extracted from non-JSON response")
        /\ NoKeywords => result["keywords"] = ListV(<<>>)

\* C19 witness: a text without JSON and without summary was normalised
C19_Witness ==
    /\ Extracted /\ task = "resume"
    /\ result_text = "I cannot analyze this."
    /\ result["summary"] = StrV("Extracted from non-JSON response")
    /\ result["keywords"] = ListV(<<>>)

\* C20: for every request that AnalysisRequest accepts and every behaviour
\* of the providers, the caller of /analyze never receives an error
\* response, and a response it receives carries an integer trust_score in
\* [0,100], a str summary with a list of str keywords, three integer github
\* scores and a resume score with integer scores in [0,100].
C20_AlwaysFullResponse ==
    /\ response.kind # "error"
    /\ response.kind = "success" =>
          /\ IsScore(response.trust_score)
          /\ response.resume_analysis.summary.t = "str"
          /\ response.resume_analysis.keywords.t = "list"
          /\ \A f \in ScoreFields : response.github_score[f].t = "int"
          /\ WellFormed(response.resume_score)

\* the pass-through condition as the specification words it: the three
\* fields are present with numeric values in [0,100]
NumericInRange(data) ==
    /\ ScoreFields \subseteq DOMAIN data
    /\ \A f \in ScoreFields :
          /\ data[f].t \in {"int", "float"}
          /\ ~NumLess(data[f], 0) /\ ~NumGreater(data[f], 100)

\* the invocation ended in the provider chain or in the mock source
ViaChainOrMock == path \in {"mock", "provider", "fallback", "unexpected"}

\* C21: a GitHub input that does not hold the three fields as numbers in
\* [0,100], also one that names all three fields with a non-numeric or
\* out-of-range value, is never returned directly: the invocation ends in
\* the provider chain or in the mock source.
C21_InvalidGoesToChain ==
    (task = "github" /\ ~NumericInRange(github_data) /\ Done) =>
        Returned /\ ViaChainOrMock

\* what lines 42-46 make of a value int() accepts
Direct(v) ==
    IF v.t \in {"int", "bool"} THEN IntV(Clamped(v.n))
    ELSE IF v.t = "float" THEN IntV(Clamped(py_int(v).v.n))
    ELSE IntV(50)

\* C21 amended: the pass-through depends on the presence of the three field
\* names only.  An input naming all three never reaches a provider or the
\* mock source: it is returned directly, a value that is no number as 50,
\* a number truncated and clamped to [0,100] (NaN and infinities raise out
\* of the function).  Only an input lacking a field ends in the provider
\* chain or the mock source.
C21_PresentFieldsReturnedDirectly ==
    task = "github" =>
        /\ (ScoreFields \subseteq DOMAIN github_data) =>
              /\ calls = <<>> /\ pc \in {"start", "done"}
              /\ Done =>
                    IF \E f \in ScoreFields : github_data[f].t \in {"nan", "inf"}
                    THEN status = "raised"
                    ELSE /\ Returned /\ path = "passthrough"
                         /\ result = [f \in ScoreFields |-> Direct(github_data[f])]
        /\ (~(ScoreFields \subseteq DOMAIN github_data) /\ Done) =>
              Returned /\ ViaChainOrMock

\* C21 witness: out-of-range scores were returned clamped while a provider
\* was configured and mock mode was off
C21_Witness ==
    /\ task = "github" /\ ~use_mock /\ openrouter_api_key
    /\ github_data = Dict3(IntV(-5), IntV(150), IntV(100))
    /\ Returned /\ path = "passthrough"
    /\ result = Dict3(IntV(0), IntV(100), IntV(100))

\* C22: when json.loads rejects the text, the forgiving extraction searches
\* the whole text the provider returned: each score is the value of the
\* first match of its pattern anywhere in the text, also before the first
\* "{" or after the last "}", and 50 only when the whole text has no match.
C22_SearchesFullText ==
    (Extracted /\ ~Loaded.ok) =>
        \A f \in ScoreFields :
            result[f] = IF FieldMatches(result_text, f) = {} THEN IntV(50)
                        ELSE IntV(Clamped(RunValue(result_text,
                                    FirstMatch(FieldMatches(result_text, f))[2])))

\* a letter in lower case
UpperLetters == "ABCDEFGHIJKLMNOPQRSTUVWXYZ"
LowerLetters == "abcdefghijklmnopqrstuvwxyz"
LowerCase(c) ==
    IF \E k \in 1..26 : Ch(UpperLetters, k) = c
    THEN Ch(LowerLetters, CHOOSE k \in 1..26 : Ch(UpperLetters, k) = c)
    ELSE c

\* name stands at i in s in any letter case, followed by separators that
\* end before the digit at j
NameThenDigitAnyCase(s, i, j, name) ==
    /\ i + Len(name) < j
    /\ j <= Len(s)
    /\ \A k \in 1..Len(name) : LowerCase(Ch(s, i + k - 1)) = LowerCase(Ch(name, k))
    /\ \A m \in (i + Len(name))..(j - 1) : Ch(s, m) \in {"\"", ":", " ", "\t", "\n", "\r", "\f"}
    /\ Ch(s, j) \in {"0", "1", "2", "3", "4", "5", "6", "7", "8", "9"}

FieldMatchesAnyCase(s, f) ==
    {m \in (1..Len(s)) \X (1..Len(s)) :
        \E name \in Spellings(f) : NameThenDigitAnyCase(s, m[1], m[2], name)}

\* C23: the forgiving extraction matches field names in any letter case:
\* when json.loads rejects the text, each score is the value of the first
\* match of the field's name written in any case (technical_skills: 77,
\* REPUTATION: 60), the same value the canonical spelling would give.
C23_CaseInsensitive ==
    (Extracted /\ ~Loaded.ok) =>
        \A f \in ScoreFields :
            result[f] = IF FieldMatchesAnyCase(Searched, f) = {} THEN IntV(50)
                        ELSE IntV(Clamped(RunValue(Searched,
                                    FirstMatch(FieldMatchesAnyCase(Searched, f))[2])))

\* C24: every provider call of analyze_github and analyze_resume, to any
\* of the three providers, is issued with the temperature 0.3.
C24_FixedTemperature ==
    \A i \in 1..Len(calls) : calls[i].temperature = "0.3"

\* C25: in one /analyze request the GitHub task has finished before the
\* resume task starts, the aggregation runs only after both have returned,
\* and the trust_score of every success response is calculate_trust_score
\* of the github_score and resume_score that same response carries.
C25_TrustScoreOfResponse ==
    /\ task = "github" => github_score = EmptyDict /\ response \in {Pending, HTTP500}
    /\ task = "resume" => github_score # EmptyDict
    /\ response = Pending => resume_score = EmptyDict /\ trust_score = IntV(0)
    /\ response.kind = "success" =>
          /\ pc = "done" /\ task = "resume"
          /\ response.trust_score \in
                calculate_trust_score(response.github_score, response.resume_score)

\* C26: once a provider call has returned a text, no later provider is
\* called in that invocation: the text response is the last response, the
\* call that got it is the last call and the function has returned on the
\* provider path, also when the text is empty or matches no field (the
\* result is then 50 for every score) or makes the extractor raise
\* internally (the result is then a mock output).
C26_AnyTextEndsChain ==
    \A i \in TextAt :
        /\ i = Len(responses) /\ Len(calls) = i /\ in_flight = {}
        /\ Done /\ Returned /\ path = "provider"
        /\ responses[i].text \in {"", "  \n", "I cannot analyze this."}
              => \A f \in ScoreFields : result[f] = IntV(50)
        /\ responses[i].text \in
              {"null", "{\"Technical_Skills\": null, \"Reputation\": 60, \"Activity\": 70}"}
              => result \in MockOutputs

\* C26 witness: OpenRouter answered with an empty text while Deepseek and
\* OpenAI were configured, and the invocation ended there
C26_Witness ==
    /\ deepseek_api_key /\ openai_api_key
    /\ Len(calls) = 1 /\ TextAt = {1} /\ responses[1].text = ""
    /\ Done /\ path = "provider"
    /\ \A f \in ScoreFields : result[f] = IntV(50)

\* the step-by-step chain returns only values the call-level functions list
ReturnsAgree ==
    /\ (task = "github" /\ Returned) => result \in analyze_github_returns(github_data)
    /\ (task = "github" /\ status = "raised") => analyze_github_returns(github_data) = {}
    /\ (task = "resume" /\ Done) =>
          Returned /\ result \in analyze_resume_returns(resume_text)

\* the three scores of the request
RequestScores == [f \in ScoreFields |-> github_data[f]]

\* C27: through /analyze the GitHub task never reaches a provider or the
\* mock source: for every request the schema accepts, in every
\* configuration of credentials and mock flag, the value bound to
\* github_score is the three scores of the request, and so is the
\* github_score of every success response.
C27_GithubScoreIsRequest ==
    task = "analyze" =>
        /\ analyze_github_returns(github_data) = {RequestScores}
        /\ pc # "start" => github_score = RequestScores
        /\ response.kind = "success" => response.github_score = RequestScores
        /\ calls = <<>>

\* C27 witness: a success response in mock mode with all credentials set
C27_Witness ==
    /\ task = "analyze" /\ use_mock
    /\ openrouter_api_key /\ deepseek_api_key /\ openai_api_key
    /\ response.kind = "success"
    /\ response.github_score = Dict3(IntV(85), IntV(72), IntV(90))

\* all three scores of the map are the integer v
Uniform(d, v) == d = Dict3(IntV(v), IntV(v), IntV(v))

\* C28: the weights sum to 1.0, 60% on GitHub and 40% on the resume: with
\* the three GitHub scores equal to g and the three resume scores equal to
\* r, for all g, r in [0,100], calculate_trust_score returns the integer
\* nearest to 0.6 g + 0.4 r, and v when all six scores are v.
C28_SixtyForty ==
    (Scored /\ ValidScores(github_score) /\ ValidScores(resume_score)) =>
        \A g \in {github_score["Technical_Skills"].n} :
        \A r \in {resume_score["Technical_Skills"].n} :
            (Uniform(github_score, g) /\ Uniform(resume_score, r)) =>
                /\ trust_score = IntV((60 * g + 40 * r + 50) \div 100)
                /\ (60 * g + 40 * r) % 100 # 50
                /\ g = r => trust_score = IntV(g)

\* C28 witness: 0.6 * 85 + 0.4 * 40 = 67
C28_Witness ==
    /\ Scored
    /\ Uniform(github_score, 85) /\ Uniform(resume_score, 40)
    /\ trust_score = IntV(67)

\* by how much a score is raised
RaiseSteps == {1, 2, 5, 10, 50, 100}

\* the map with the score of field f, which is below 100, raised by step
\* but not beyond 100
Raised(d, f, step) ==
    [d EXCEPT ![f] = IntV(IF d[f].n + step > 100 THEN 100 ELSE d[f].n + step)]

\* C29: calculate_trust_score is monotone: with all six scores integers in
\* [0,100], raising one score of either map and keeping the other five
\* never gives a value below the value returned.
C29_Monotone ==
    (Scored /\ ValidScores(github_score) /\ ValidScores(resume_score)) =>
        \A f \in ScoreFields : \A step \in RaiseSteps :
            /\ github_score[f].n < 100 =>
                  \A t \in calculate_trust_score(Raised(github_score, f, step), resume_score) :
                      t.n >= trust_score.n
            /\ resume_score[f].n < 100 =>
                  \A t \in calculate_trust_score(github_score, Raised(resume_score, f, step)) :
                      t.n >= trust_score.n

\* C29 witness: a call whose result rises when Technical_Skills is raised
C29_Witness ==
    /\ Scored
    /\ github_score = Dict3(IntV(50), IntV(50), IntV(51))
    /\ Uniform(resume_score, 0)
    /\ trust_score = IntV(30)
    /\ calculate_trust_score(Raised(github_score, "Technical_Skills", 10), resume_score)
          = {IntV(33)}

====
